---- MODULE Spec2Model ----
(***************************************************************************)
(* Trust-score engine of CyberAI-Inspector: analyze_url, analyze_text and  *)
(* analyze_image (backend/analyzers).  One request is in progress at a     *)
(* time; pc is the position inside the analyzer that handles it.  Every    *)
(* external collaborator (HTTP, DNS, WHOIS, TLS, Azure, the imaging and    *)
(* NLP libraries) is an environment choice made where the code calls it.   *)
(* Strings the code inspects (host names, file names, EXIF values) are     *)
(* sequences of one-character strings.  SpecSearch is the real-time text   *)
(* analyzer (backend/realtime_analyzer.py): the coroutines of several      *)
(* callers on the one RealTimeFactChecker of the process.                  *)
(***************************************************************************)
EXTENDS Integers, Sequences, FiniteSets, TLC

VARIABLES
    pc,        \* position in the running analyzer, "idle" between requests
    item,      \* the ContentItem of the request in progress
    trust,     \* the local `trust` of the running analyzer (not clamped)
    verdict,   \* the local `verdict`
    gathered,  \* what asyncio.gather has collected, one slot per awaitable
    locals,    \* the other locals of the analyzer that end up in the result
    result,    \* what the analyzer returned
    running,   \* the sub-check or blocking call the event-loop thread is in
    fact_checker,  \* realtime_analyzer.fact_checker, the process-wide instance
    http,      \* the aiohttp sessions created so far: "open" or "closed"
    calls      \* the frame of each caller's coroutine on fact_checker

analyzer_vars == <<pc, item, trust, verdict, gathered, locals, result, running>>
search_vars == <<fact_checker, http, calls>>
vars == <<pc, item, trust, verdict, gathered, locals, result, running,
          fact_checker, http, calls>>

(***************************************************************************)
(* Bounds of the model.                                                    *)
(***************************************************************************)
\* largest number of false-claim patterns a text of the model matches (7 in
\* the code)
MaxFalseClaims == 2
\* largest number of misinformation patterns a text of the model is built
\* from (10 in the code)
MaxMisinfo == 2
\* largest number of categories one content-safety answer lists
MaxCategories == 2
\* number of coroutines that use fact_checker at the same time
MaxCallers == 2

(***************************************************************************)
(* Strings and dicts.                                                      *)
(***************************************************************************)
Max(a, b) == IF a >= b THEN a ELSE b
Min(a, b) == IF a <= b THEN a ELSE b

\* s.endswith(t)
EndsWith(s, t) ==
    /\ Len(s) >= Len(t)
    /\ SubSeq(s, Len(s) - Len(t) + 1, Len(s)) = t

\* t in s
Contains(s, t) ==
    \E i \in 1..(Len(s) - Len(t) + 1) : SubSeq(s, i, i + Len(t) - 1) = t

\* str.lower()
lower(s) ==
    LET UpperCase ==
          <<"A","B","C","D","E","F","G","H","I","J","K","L","M",
            "N","O","P","Q","R","S","T","U","V","W","X","Y","Z">>
        LowerCase ==
          <<"a","b","c","d","e","f","g","h","i","j","k","l","m",
            "n","o","p","q","r","s","t","u","v","w","x","y","z">>
    IN  [k \in DOMAIN s |->
            IF \E u \in DOMAIN UpperCase : UpperCase[u] = s[k]
            THEN LowerCase[CHOOSE u \in DOMAIN UpperCase : UpperCase[u] = s[k]]
            ELSE s[k]]

\* any(p(x) for x in xs) over a list literal
AnyEndsWith(s, xs) == \E k \in 1..Len(xs) : EndsWith(s, xs[k])
AnyContained(s, xs) == \E k \in 1..Len(xs) : Contains(s, xs[k])

\* d.get(key, default)
Get(d, key, default) == IF key \in DOMAIN d THEN d[key] ELSE default

\* An exception object, as asyncio.gather(return_exceptions=True) hands it back.
IsExc(r) == "exc" \in DOMAIN r
\* isinstance(r, dict)
IsDict(r) == ~IsExc(r)
\* a slot of the gather that no awaitable has filled yet
Pending == [pending |-> TRUE]
IsPending(r) == "pending" \in DOMAIN r
\* truthiness of d.get("error")
HasError(r) == Get(r, "error", "") # ""

\* max(0, min(100, trust))
ClampNone(t) == t
Clamp(t) == Max(0, Min(100, t))

Cur == [trust |-> trust, verdict |-> verdict]

NoItem == [kind |-> "none"]
NoResult == [returned |-> FALSE]
NoLocals == [unset |-> TRUE]

\* the event-loop thread is in no sub-check and in no blocking call
NoCall == [name |-> "none", returns |-> TRUE]

\* the coroutines that use fact_checker at the same time
Callers == 1..MaxCallers

\* self.session = None
NoSession == 0

\* a caller that is in none of the coroutines
NoFrame ==
    [op |-> "none", pc |-> "none", session |-> NoSession, stage |-> "none",
     geo |-> 0, fact |-> 0, exc |-> "none", result |-> NoResult]

\* the sub-checks and steps that wait for an external service
Blocking ==
    {"privacy", "headers", "dns", "tracking", "whois", "tls",
     "azure_text", "azure_safety", "azure_vision"}

\* the timeout, in seconds, the code passes to the blocking calls of c; 0
\* where it passes none: dns.resolver.resolve, whois.whois and the Azure
\* clients are called without one, and nothing wraps them in a wait_for
TimeoutOf(c) ==
    CASE c = "privacy" -> 10
      [] c = "headers" -> 10
      [] c = "tracking" -> 15
      [] c = "tls" -> 10
      [] OTHER -> 0

\* a blocking call the code puts no limit on returns only if the service or
\* the library ends it
MayNeverReturn(c) == c \in Blocking /\ TimeoutOf(c) = 0

\* the blocking call of step c is made and never returns: analyze_* stays
\* where it is
NeverReturns(c) ==
    /\ MayNeverReturn(c)
    /\ running' = [name |-> c, returns |-> FALSE]
    /\ UNCHANGED <<pc, trust, verdict, locals>>

(***************************************************************************)
(* analyze_url: static tables.                                             *)
(***************************************************************************)
trusted_domains ==
  << <<"g","o","o","g","l","e",".","c","o","m">>,
     <<"y","o","u","t","u","b","e",".","c","o","m">>,
     <<"f","a","c","e","b","o","o","k",".","c","o","m">>,
     <<"t","w","i","t","t","e","r",".","c","o","m">>,
     <<"i","n","s","t","a","g","r","a","m",".","c","o","m">>,
     <<"l","i","n","k","e","d","i","n",".","c","o","m">>,
     <<"g","i","t","h","u","b",".","c","o","m">>,
     <<"s","t","a","c","k","o","v","e","r","f","l","o","w",".","c","o","m">>,
     <<"r","e","d","d","i","t",".","c","o","m">>,
     <<"w","i","k","i","p","e","d","i","a",".","o","r","g">>,
     <<"a","m","a","z","o","n",".","c","o","m">>,
     <<"m","i","c","r","o","s","o","f","t",".","c","o","m">>,
     <<"a","p","p","l","e",".","c","o","m">>,
     <<"n","e","t","f","l","i","x",".","c","o","m">>,
     <<"a","d","o","b","e",".","c","o","m">> >>

suspicious_tlds ==
  << <<".","t","k">>,
     <<".","m","l">>,
     <<".","g","a">>,
     <<".","c","f">>,
     <<".","c","l","i","c","k">>,
     <<".","d","o","w","n","l","o","a","d">>,
     <<".","t","o","p">> >>

phishing_words ==
  << <<"s","e","c","u","r","e">>,
     <<"l","o","g","i","n">>,
     <<"b","a","n","k">>,
     <<"p","a","y","p","a","l">>,
     <<"a","m","a","z","o","n">> >>

safe_endings ==
  << <<".","c","o","m">>,
     <<".","o","r","g">>,
     <<".","g","o","v">>,
     <<".","e","d","u">> >>

shorteners ==
  << <<"b","i","t",".","l","y">>,
     <<"t","i","n","y","u","r","l",".","c","o","m">>,
     <<"t",".","c","o">>,
     <<"g","o","o",".","g","l">>,
     <<"o","w",".","l","y">>,
     <<"s","h","o","r","t",".","l","i","n","k">> >>

\* any(domain.endswith(td) for td in trusted_domains)
IsTrustedDomain(domain) == AnyEndsWith(domain, trusted_domains)

Digits == {"0","1","2","3","4","5","6","7","8","9"}

AllDigits(s, from, n) == \A k \in from..(from + n - 1) : s[k] \in Digits

\* re.search(r'\d{1,3}\.\d{1,3}\.\d{1,3}\.\d{1,3}', domain)
LooksLikeIp(domain) ==
    \E i \in 1..Len(domain) : \E a, b, c, d \in 1..3 :
        /\ i + a + b + c + d + 2 <= Len(domain)
        /\ AllDigits(domain, i, a)
        /\ domain[i + a] = "."
        /\ AllDigits(domain, i + a + 1, b)
        /\ domain[i + a + b + 1] = "."
        /\ AllDigits(domain, i + a + b + 2, c)
        /\ domain[i + a + b + c + 2] = "."
        /\ AllDigits(domain, i + a + b + c + 3, d)

(***************************************************************************)
(* The URLs of the model: scheme and netloc.lower() of urlparse(url).      *)
(***************************************************************************)
Urls ==
    LET ExampleCom == <<"e","x","a","m","p","l","e",".","c","o","m">>
        GoogleCom == <<"g","o","o","g","l","e",".","c","o","m">>
        RawIp == <<"1","9","2",".","1","6","8",".","0",".","1">>
        FreeTk == <<"f","r","e","e",".","t","k">>
        BitLy == <<"b","i","t",".","l","y">>
        PaypalNet == <<"p","a","y","p","a","l","-","s","e","c","u","r","e",
                       ".","n","e","t">>
        GoogleComPort == <<"g","o","o","g","l","e",".","c","o","m",":",
                           "4","4","3">>
        NotGoogleCom == <<"n","o","t","g","o","o","g","l","e",".","c","o","m">>
        RedditCom == <<"r","e","d","d","i","t",".","c","o","m">>
    IN  { [kind |-> "url", scheme |-> "https", domain |-> ExampleCom],
          [kind |-> "url", scheme |-> "https", domain |-> GoogleCom],
          [kind |-> "url", scheme |-> "http",  domain |-> GoogleCom],
          [kind |-> "url", scheme |-> "http",  domain |-> RawIp],
          [kind |-> "url", scheme |-> "http",  domain |-> FreeTk],
          [kind |-> "url", scheme |-> "https", domain |-> BitLy],
          [kind |-> "url", scheme |-> "https", domain |-> PaypalNet],
          [kind |-> "url", scheme |-> "https", domain |-> GoogleComPort],
          [kind |-> "url", scheme |-> "https", domain |-> NotGoogleCom],
          [kind |-> "url", scheme |-> "https", domain |-> RedditCom] }

(***************************************************************************)
(* The texts of the model, and what analyze_text and its sub-checks read   *)
(* in a text.                                                              *)
(***************************************************************************)
\* The patterns of the list hold no operator of the regular-expression
\* language (\' stands for the apostrophe): each is searched as a substring.
misinformation_patterns ==
    << <<"1","0","0","%"," ","p","r","o","v","e","n">>,
       <<"d","o","c","t","o","r","s"," ","h","a","t","e"," ","t","h","i","s">>,
       <<"s","c","i","e","n","t","i","s","t","s"," ","d","o","n","'","t"," ","w","a","n","t"," ","y","o","u"," ","t","o"," ","k","n","o","w">>,
       <<"b","i","g"," ","p","h","a","r","m","a">>,
       <<"t","h","e"," ","t","r","u","t","h"," ","t","h","e","y"," ","h","i","d","e">>,
       <<"w","a","k","e"," ","u","p"," ","s","h","e","e","p","l","e">>,
       <<"m","a","i","n","s","t","r","e","a","m"," ","m","e","d","i","a"," ","l","i","e","s">>,
       <<"t","h","e","y"," ","d","o","n","'","t"," ","w","a","n","t"," ","y","o","u"," ","t","o"," ","k","n","o","w">>,
       <<"e","x","p","o","s","e","d","!">>,
       <<"s","h","o","c","k","i","n","g"," ","t","r","u","t","h">> >>

\* sum(1 for pattern in misinformation_patterns if re.search(pattern, text, re.IGNORECASE))
misinformation_count(text) ==
    Cardinality({k \in DOMAIN misinformation_patterns :
                    Contains(lower(text), misinformation_patterns[k])})

\* The texts of the model.  Delhi: a statement of the knowledge base, as
\* typed.  Weather: a text that matches nothing.  EarthExposed: a statement
\* of the knowledge base followed by two misinformation phrases.
\* Claimed(n): a text that matches n of the false-claim patterns.
\* Rhetoric(n): the first n misinformation phrases, one after the other.
\* Fragment: one word that occurs in statements of the knowledge base.
\* The empty tuple is the empty text.
Texts ==
    LET Delhi == <<"D","e","l","h","i"," ","i","s"," ","c","a","p","i","t","a","l"," ","o","f"," ","I","n","d","i","a",".">>
        Weather == <<"R","a","i","n"," ","i","s"," ","e","x","p","e","c","t","e","d"," ","o","n"," ","M","o","n","d","a","y",".">>
        EarthExposed ==
          <<"E","a","r","t","h"," ","i","s"," ","r","o","u","n","d","."," ","1","0","0","%"," ","P","R","O","V","E","N","!"," ","B","i","g"," ","P","h","a","r","m","a",".">>
        Claims ==
          << <<"I"," ","a","m"," ","b","i","l","l","i","o","n","a","i","r","e","."," ">>,
             <<"I"," ","o","w","n"," ","A","c","m","e"," ","c","o","m","p","a","n","y","."," ">>,
             <<"I"," ","c","o","n","t","r","o","l"," ","A","c","m","e"," ","b","u","s","i","n","e","s","s","."," ">> >>
        RECURSIVE Claimed(_)
        Claimed(n) == IF n = 0 THEN << >> ELSE Claimed(n - 1) \o Claims[n]
        RECURSIVE Rhetoric(_)
        Rhetoric(n) ==
            IF n = 0 THEN << >>
            ELSE Rhetoric(n - 1) \o misinformation_patterns[n] \o <<" ">>
        Fragment == <<"i","s">>
    IN  {Delhi, Weather, EarthExposed, Fragment, << >>}
          \cup {Claimed(n) : n \in 1..MaxFalseClaims}
          \cup {Rhetoric(n) : n \in 1..MaxMisinfo}

\* The characters \w matches in the texts of the model.
WordChar(c) ==
    c \in Digits \cup {"_"} \cup
       {"a","b","c","d","e","f","g","h","i","j","k","l","m",
        "n","o","p","q","r","s","t","u","v","w","x","y","z",
        "A","B","C","D","E","F","G","H","I","J","K","L","M",
        "N","O","P","Q","R","S","T","U","V","W","X","Y","Z"}

\* re.search(pattern, text) for a pattern that is a sequence of literal
\* strings, \w+ and alternations of literal strings.
search(pattern, text) ==
    LET Literal(p, t) ==
            /\ p + Len(t) - 1 <= Len(text)
            /\ SubSeq(text, p, p + Len(t) - 1) = t
        RECURSIVE MatchFrom(_, _)
        MatchFrom(p, k) ==
            IF k > Len(pattern) THEN TRUE
            ELSE LET e == pattern[k]
                 IN  IF "lit" \in DOMAIN e
                     THEN Literal(p, e.lit) /\ MatchFrom(p + Len(e.lit), k + 1)
                     ELSE IF "alt" \in DOMAIN e
                     THEN \E t \in e.alt :
                             Literal(p, t) /\ MatchFrom(p + Len(t), k + 1)
                     ELSE \E q \in (p + 1)..(Len(text) + 1) :
                             /\ \A m \in p..(q - 1) : WordChar(text[m])
                             /\ MatchFrom(q, k + 1)
    IN  \E p \in 1..(Len(text) + 1) : MatchFrom(p, 1)

\* The regular expressions of the list, searched with re.IGNORECASE: the
\* model searches the lowered text.  The \b that opens the first one is left
\* out: where \w+ matches from inside a word it matches from its start too.
false_claim_patterns ==
    << << [word |-> TRUE],
          [lit |-> <<" ","i","s"," ">>],
          [word |-> TRUE],
          [lit |-> <<" ">>],
          [alt |-> {<<"g","i","r","l","f","r","i","e","n","d">>, <<"b","o","y","f","r","i","e","n","d">>, <<"w","i","f","e">>, <<"h","u","s","b","a","n","d">>, <<"p","a","r","t","n","e","r">>}] >>,
       << [lit |-> <<"i"," ","a","m"," ">>],
          [word |-> TRUE],
          [lit |-> <<" ">>],
          [alt |-> {<<"o","w","n","e","r">>, <<"c","e","o">>, <<"p","r","e","s","i","d","e","n","t">>, <<"f","o","u","n","d","e","r">>}],
          [lit |-> <<" ","o","f"," ">>],
          [word |-> TRUE] >>,
       << [word |-> TRUE],
          [lit |-> <<" ">>],
          [alt |-> {<<"a","r","e">>, <<"i","s">>}],
          [lit |-> <<" ","m","y"," ">>],
          [alt |-> {<<"s","e","r","v","a","n","t">>, <<"e","m","p","l","o","y","e","e">>, <<"w","o","r","k","e","r">>, <<"s","l","a","v","e">>}] >>,
       << [lit |-> <<"i"," ","o","w","n"," ">>],
          [word |-> TRUE],
          [lit |-> <<" ">>],
          [alt |-> {<<"c","o","m","p","a","n","y">>, <<"c","o","r","p","o","r","a","t","i","o","n">>, <<"b","u","s","i","n","e","s","s">>, <<"i","n","d","u","s","t","r","y">>}] >>,
       << [lit |-> <<"i"," ","a","m"," ">>],
          [alt |-> {<<"b","i","l","l","i","o","n","a","i","r","e">>, <<"m","i","l","l","i","o","n","a","i","r","e">>, <<"r","i","c","h","e","s","t">>, <<"o","w","n","e","r"," ","o","f">>}] >>,
       << [lit |-> <<"i"," ","c","o","n","t","r","o","l"," ">>],
          [word |-> TRUE],
          [lit |-> <<" ">>],
          [alt |-> {<<"c","o","m","p","a","n","y">>, <<"c","o","r","p","o","r","a","t","i","o","n">>, <<"b","u","s","i","n","e","s","s">>}] >>,
       << [lit |-> <<"i"," ","b","o","u","g","h","t"," ">>],
          [word |-> TRUE],
          [lit |-> <<" ">>],
          [alt |-> {<<"c","o","m","p","a","n","y">>, <<"c","o","r","p","o","r","a","t","i","o","n">>, <<"b","u","s","i","n","e","s","s">>}] >> >>

\* sum(1 for pattern in false_claim_patterns if re.search(pattern, text, re.IGNORECASE))
false_claim_count(text) ==
    Cardinality({k \in DOMAIN false_claim_patterns :
                    search(false_claim_patterns[k], lower(text))})

\* the dict, in the order of its literal
geographical_facts ==
    << [fact |-> <<"p","a","t","n","a"," ","i","s"," ","c","a","p","i","t","a","l"," ","o","f"," ","b","i","h","a","r">>,
        score |-> 95],
       [fact |-> <<"d","e","l","h","i"," ","i","s"," ","c","a","p","i","t","a","l"," ","o","f"," ","i","n","d","i","a">>,
        score |-> 95],
       [fact |-> <<"m","u","m","b","a","i"," ","i","s"," ","c","a","p","i","t","a","l"," ","o","f"," ","m","a","h","a","r","a","s","h","t","r","a">>,
        score |-> 95],
       [fact |-> <<"k","o","l","k","a","t","a"," ","i","s"," ","c","a","p","i","t","a","l"," ","o","f"," ","w","e","s","t"," ","b","e","n","g","a","l">>,
        score |-> 95],
       [fact |-> <<"c","h","e","n","n","a","i"," ","i","s"," ","c","a","p","i","t","a","l"," ","o","f"," ","t","a","m","i","l"," ","n","a","d","u">>,
        score |-> 95],
       [fact |-> <<"b","a","n","g","a","l","o","r","e"," ","i","s"," ","c","a","p","i","t","a","l"," ","o","f"," ","k","a","r","n","a","t","a","k","a">>,
        score |-> 95],
       [fact |-> <<"h","y","d","e","r","a","b","a","d"," ","i","s"," ","c","a","p","i","t","a","l"," ","o","f"," ","t","e","l","a","n","g","a","n","a">>,
        score |-> 95],
       [fact |-> <<"w","a","s","h","i","n","g","t","o","n"," ","i","s"," ","c","a","p","i","t","a","l"," ","o","f"," ","u","s","a">>,
        score |-> 95],
       [fact |-> <<"l","o","n","d","o","n"," ","i","s"," ","c","a","p","i","t","a","l"," ","o","f"," ","e","n","g","l","a","n","d">>,
        score |-> 95],
       [fact |-> <<"p","a","r","i","s"," ","i","s"," ","c","a","p","i","t","a","l"," ","o","f"," ","f","r","a","n","c","e">>,
        score |-> 95],
       [fact |-> <<"e","a","r","t","h"," ","i","s"," ","r","o","u","n","d">>,
        score |-> 98],
       [fact |-> <<"v","a","c","c","i","n","e","s"," ","a","r","e"," ","s","a","f","e">>,
        score |-> 95],
       [fact |-> <<"c","l","i","m","a","t","e"," ","c","h","a","n","g","e"," ","i","s"," ","r","e","a","l">>,
        score |-> 97] >>

\* re.sub(r'[^\w\s]', '', text.lower().strip())
text_normalized(text) ==
    LET Inner == {k \in DOMAIN text : text[k] # " "}
        stripped == IF Inner = {} THEN << >>
                    ELSE SubSeq(text,
                                CHOOSE a \in Inner : \A b \in Inner : a <= b,
                                CHOOSE a \in Inner : \A b \in Inner : a >= b)
        WordOrSpace(c) == WordChar(c) \/ c = " "
    IN  SelectSeq(lower(stripped), WordOrSpace)

\* the statements of cross_reference_facts and their 'truth'
fact_database ==
    << [fact |-> <<"n","e","w"," ","d","e","l","h","i"," ","i","s"," ","c","a","p","i","t","a","l"," ","o","f"," ","i","n","d","i","a">>,
        truth |-> TRUE],
       [fact |-> <<"m","u","m","b","a","i"," ","i","s"," ","c","a","p","i","t","a","l"," ","o","f"," ","m","a","h","a","r","a","s","h","t","r","a">>,
        truth |-> TRUE],
       [fact |-> <<"k","o","l","k","a","t","a"," ","i","s"," ","c","a","p","i","t","a","l"," ","o","f"," ","w","e","s","t"," ","b","e","n","g","a","l">>,
        truth |-> TRUE],
       [fact |-> <<"c","h","e","n","n","a","i"," ","i","s"," ","c","a","p","i","t","a","l"," ","o","f"," ","t","a","m","i","l"," ","n","a","d","u">>,
        truth |-> TRUE],
       [fact |-> <<"b","a","n","g","a","l","o","r","e"," ","i","s"," ","c","a","p","i","t","a","l"," ","o","f"," ","k","a","r","n","a","t","a","k","a">>,
        truth |-> TRUE],
       [fact |-> <<"h","y","d","e","r","a","b","a","d"," ","i","s"," ","c","a","p","i","t","a","l"," ","o","f"," ","t","e","l","a","n","g","a","n","a">>,
        truth |-> TRUE],
       [fact |-> <<"w","a","s","h","i","n","g","t","o","n"," ","d","c"," ","i","s"," ","c","a","p","i","t","a","l"," ","o","f"," ","u","s","a">>,
        truth |-> TRUE],
       [fact |-> <<"l","o","n","d","o","n"," ","i","s"," ","c","a","p","i","t","a","l"," ","o","f"," ","e","n","g","l","a","n","d">>,
        truth |-> TRUE],
       [fact |-> <<"p","a","r","i","s"," ","i","s"," ","c","a","p","i","t","a","l"," ","o","f"," ","f","r","a","n","c","e">>,
        truth |-> TRUE],
       [fact |-> <<"e","a","r","t","h"," ","i","s"," ","r","o","u","n","d">>,
        truth |-> TRUE],
       [fact |-> <<"e","a","r","t","h"," ","i","s"," ","f","l","a","t">>,
        truth |-> FALSE],
       [fact |-> <<"v","a","c","c","i","n","e","s"," ","c","a","u","s","e"," ","a","u","t","i","s","m">>,
        truth |-> FALSE],
       [fact |-> <<"c","l","i","m","a","t","e"," ","c","h","a","n","g","e"," ","i","s"," ","r","e","a","l">>,
        truth |-> TRUE],
       [fact |-> <<"a","i"," ","c","a","n"," ","t","h","i","n","k"," ","l","i","k","e"," ","h","u","m","a","n","s">>,
        truth |-> FALSE],
       [fact |-> <<"i","n","t","e","r","n","e","t"," ","w","a","s"," ","i","n","v","e","n","t","e","d"," ","i","n"," ","1","9","6","9">>,
        truth |-> TRUE],
       [fact |-> <<"s","m","o","k","i","n","g"," ","c","a","u","s","e","s"," ","c","a","n","c","e","r">>,
        truth |-> TRUE],
       [fact |-> <<"w","a","t","e","r"," ","i","s"," ","e","s","s","e","n","t","i","a","l"," ","f","o","r"," ","l","i","f","e">>,
        truth |-> TRUE] >>

\* AdvancedTextAnalyzer.cross_reference_facts: a statement counts when the
\* normalized text holds it or holds one of its words of more than three
\* letters.  The two lists are held by their lengths.
cross_reference_facts(text) ==
    LET normalized == text_normalized(text)
        RECURSIVE split(_, _, _)
        \* the words of s from position p on, w being the word under way
        split(s, p, w) ==
            LET done == IF w = << >> THEN << >> ELSE <<w>>
            IN  IF p > Len(s) THEN done
                ELSE IF s[p] = " " THEN done \o split(s, p + 1, << >>)
                ELSE split(s, p + 1, Append(w, s[p]))
        Matches(fact) ==
            \/ Contains(normalized, fact)
            \/ \E k \in DOMAIN split(fact, 1, << >>) :
                  /\ Len(split(fact, 1, << >>)[k]) > 3
                  /\ Contains(normalized, split(fact, 1, << >>)[k])
        matched == {k \in DOMAIN fact_database : Matches(fact_database[k].fact)}
    IN  [verified_facts |->
            Cardinality({k \in matched : fact_database[k].truth}),
         contradicted_facts |->
            Cardinality({k \in matched : ~fact_database[k].truth})]

\* what analyze_text works out from its text
Scanned ==
    [text \in Texts |->
        [false_claim_count |-> false_claim_count(text),
         misinformation_count |-> misinformation_count(text),
         text_normalized |-> text_normalized(text),
         facts |-> cross_reference_facts(text)]]

(***************************************************************************)
(* The awaitables handed to asyncio.gather, in the order of the call, and  *)
(* what each can hand back.  "check" names the coroutine that built the    *)
(* value.  A coroutine ends by returning its dict, with an "error" key     *)
(* when its own except clause ran, or by raising.                          *)
(***************************************************************************)
UrlProducers == <<"privacy", "headers", "dns", "tracking">>
TextProducers == <<"bias", "quality", "claims", "ai", "facts", "semantic">>

Raised(c) == [check |-> c, exc |-> "Exception"]

\* SecurityAnalyzer.analyze_privacy_policy
PrivacyOutcomes ==
    { [check |-> "privacy", has_privacy_policy |-> TRUE],
      [check |-> "privacy", has_privacy_policy |-> FALSE],
      [check |-> "privacy", has_privacy_policy |-> FALSE, error |-> "e"],
      Raised("privacy") }

\* SecurityAnalyzer.analyze_security_headers
HeadersOutcomes ==
    { [check |-> "headers", security_score |-> 0, error |-> "e"],
      [check |-> "headers", security_score |-> 35],
      [check |-> "headers", security_score |-> 100],
      Raised("headers") }

\* SecurityAnalyzer.analyze_dns_security: every lookup has its own except
\* clause, so a resolver that answers nothing leaves security_score 0
DnsOutcomes ==
    { [check |-> "dns", security_score |-> 0],
      [check |-> "dns", security_score |-> 30],
      [check |-> "dns", security_score |-> 70],
      Raised("dns") }

\* SecurityAnalyzer.analyze_cookies_and_tracking
TrackingOutcomes ==
    { [check |-> "tracking", privacy_score |-> 100, error |-> "e"],
      [check |-> "tracking", privacy_score |-> 70],
      [check |-> "tracking", privacy_score |-> 40],
      Raised("tracking") }

(***************************************************************************)
(* Sub-checks of analyze_text.  Fractions are held in hundredths: an       *)
(* emotional_manipulation of 0.6 is 60.  A list is held by its length.     *)
(***************************************************************************)
\* AdvancedTextAnalyzer.analyze_bias_and_subjectivity
BiasOutcomes ==
    { [check |-> "bias", emotional_manipulation |-> 0, subjectivity |-> 50],
      [check |-> "bias", emotional_manipulation |-> 40, subjectivity |-> 50],
      [check |-> "bias", emotional_manipulation |-> 60, subjectivity |-> 90],
      [check |-> "bias", error |-> "e"],
      Raised("bias") }

\* AdvancedTextAnalyzer.analyze_readability_and_quality: quality_score starts
\* at 100 and loses at most 20 + 15 + 20
QualityOutcomes ==
    { [check |-> "quality", quality_score |-> 100, lexical_diversity |-> 70],
      [check |-> "quality", quality_score |-> 65, lexical_diversity |-> 10],
      [check |-> "quality", error |-> "e"],
      Raised("quality") }

\* AdvancedTextAnalyzer.extract_and_verify_claims
ClaimsOutcomes ==
    { [check |-> "claims", claims |-> 0],
      [check |-> "claims", claims |-> 6],
      [check |-> "claims", claims |-> 0, error |-> "e"],
      Raised("claims") }

\* AdvancedTextAnalyzer.detect_ai_generated_content: ai_likelihood is a
\* number of quarters
AiOutcomes ==
    { [check |-> "ai", ai_likelihood |-> 0],
      [check |-> "ai", ai_likelihood |-> 75],
      [check |-> "ai", ai_likelihood |-> 0, error |-> "e"],
      Raised("ai") }

\* AdvancedTextAnalyzer.cross_reference_facts
FactsOutcomes ==
    { [check |-> "facts"] @@ Scanned[text].facts : text \in Texts }
      \cup { [check |-> "facts", verified_facts |-> 0, contradicted_facts |-> 0,
              error |-> "e"],
             Raised("facts") }

\* AdvancedTextAnalyzer.analyze_semantic_similarity
SemanticOutcomes ==
    { [check |-> "semantic", similarity_score |-> 0],
      [check |-> "semantic", similarity_score |-> 60],
      [check |-> "semantic", similarity_score |-> 80],
      [check |-> "semantic", similarity_score |-> 0, error |-> "e"],
      Raised("semantic") }

Outcomes(c) ==
    CASE c = "privacy"  -> PrivacyOutcomes
      [] c = "headers"  -> HeadersOutcomes
      [] c = "dns"      -> DnsOutcomes
      [] c = "tracking" -> TrackingOutcomes
      [] c = "bias"     -> BiasOutcomes
      [] c = "quality"  -> QualityOutcomes
      [] c = "claims"   -> ClaimsOutcomes
      [] c = "ai"       -> AiOutcomes
      [] c = "facts"    -> FactsOutcomes
      [] c = "semantic" -> SemanticOutcomes

Producers(kind) ==
    CASE kind = "url"  -> UrlProducers
      [] kind = "text" -> TextProducers
      [] OTHER         -> << >>

(***************************************************************************)
(* asyncio.gather(..., return_exceptions=True).                            *)
(***************************************************************************)
\* where the value of the i-th awaitable goes when it settles after n others
GatherSlotByCompletion(i, n) == n + 1
GatherSlot(i, n) == i

Settled == {i \in DOMAIN gathered : ~IsPending(gathered[i])}
AllSettled == Settled = DOMAIN gathered

\* the awaitables that have settled, by name
SettledChecks == {gathered[k].check : k \in Settled}

\* The event loop steps the task of the i-th awaitable for the first time.
\* The loop has one thread and the coroutines hold no await: a task is
\* stepped only while no other is inside its body.  Which ready task the
\* loop takes next is left open.
StartSubcheck(i) ==
    /\ pc = "gather"
    /\ i \in DOMAIN gathered
    /\ running = NoCall
    /\ Producers(item.kind)[i] \notin SettledChecks
    /\ \E b \in (IF MayNeverReturn(Producers(item.kind)[i])
                 THEN BOOLEAN ELSE {TRUE}) :
          running' = [name |-> Producers(item.kind)[i], returns |-> b]
    /\ UNCHANGED <<pc, item, trust, verdict, gathered, locals, result>>
    /\ UNCHANGED search_vars

\* The i-th awaitable runs to its end: its blocking calls have returned.
RunSubcheck(i) ==
    /\ pc = "gather"
    /\ i \in DOMAIN gathered
    /\ running.name = Producers(item.kind)[i]
    /\ running.returns
    /\ \E o \in Outcomes(Producers(item.kind)[i]) :
          gathered' = [gathered EXCEPT ![GatherSlot(i, Cardinality(Settled))] = o]
    /\ running' = NoCall
    /\ UNCHANGED <<pc, item, trust, verdict, locals, result>>
    /\ UNCHANGED search_vars

\* the first position after the await
AfterGather(kind) == IF kind = "url" THEN "u_headers" ELSE "t_bias"

\* what the except clause around the gather leaves in every result variable
FallbackResults(kind) == [i \in DOMAIN Producers(kind) |-> [error |-> "e"]]

\* the position after that except clause
AfterFallback(kind) == IF kind = "url" THEN "u_whois" ELSE "t_false_claims"

\* a gather that lets the first exception through (return_exceptions=False):
\* the surrounding except clause replaces every result and skips the block
JoinPropagating ==
    /\ pc = "gather"
    /\ AllSettled
    /\ IF \E i \in DOMAIN gathered : IsExc(gathered[i])
       THEN /\ gathered' = FallbackResults(item.kind)
            /\ pc' = AfterFallback(item.kind)
       ELSE /\ pc' = AfterGather(item.kind)
            /\ UNCHANGED gathered
    /\ UNCHANGED <<item, trust, verdict, locals, result>>
    /\ UNCHANGED running
    /\ UNCHANGED search_vars

\* a join that resumes the caller as soon as one awaitable has settled
JoinOnFirst ==
    /\ pc = "gather"
    /\ Settled # {}
    /\ pc' = AfterGather(item.kind)
    /\ UNCHANGED <<item, trust, verdict, gathered, locals, result>>
    /\ UNCHANGED running
    /\ UNCHANGED search_vars

\* The await returns: every awaitable has settled, exceptions are values.
Join ==
    /\ pc = "gather"
    /\ AllSettled
    /\ pc' = AfterGather(item.kind)
    /\ UNCHANGED <<item, trust, verdict, gathered, locals, result>>
    /\ UNCHANGED running
    /\ UNCHANGED search_vars

(***************************************************************************)
(* analyze_url.                                                            *)
(***************************************************************************)
privacy_info == gathered[1]
security_headers == gathered[2]
dns_security == gathered[3]
tracking_info == gathered[4]

UrlBase(domain) ==
    [trust |-> IF IsTrustedDomain(domain) THEN 85 ELSE 75,
     verdict |-> "Trustworthy"]

UrlStart ==
    /\ pc = "idle"
    /\ \E u \in Urls :
          /\ item' = u
          /\ trust' = UrlBase(u.domain).trust
          /\ verdict' = UrlBase(u.domain).verdict
          /\ locals' = [domain |-> u.domain]
    /\ gathered' = [i \in DOMAIN UrlProducers |-> Pending]
    /\ result' = NoResult
    /\ pc' = "gather"
    /\ UNCHANGED running
    /\ UNCHANGED search_vars

AdjustSecurityHeaders(s, r) ==
    IF IsDict(r) /\ Get(r, "security_score", 0) > 50
    THEN [s EXCEPT !.trust = @ + 10]
    ELSE IF IsDict(r) /\ Get(r, "security_score", 0) < 20
         THEN [s EXCEPT !.trust = @ - 15]
         ELSE s

AdjustDns(s, r) ==
    IF IsDict(r) /\ Get(r, "security_score", 0) > 40
    THEN [s EXCEPT !.trust = @ + 8]
    ELSE IF IsDict(r) /\ Get(r, "security_score", 0) < 20
         THEN [s EXCEPT !.trust = @ - 10]
         ELSE s

AdjustPrivacy(s, r) ==
    IF IsDict(r) /\ Get(r, "has_privacy_policy", FALSE)
    THEN [s EXCEPT !.trust = @ + 5]
    ELSE IF IsDict(r) /\ ~Get(r, "has_privacy_policy", FALSE)
         THEN [s EXCEPT !.trust = @ - 8]
         ELSE s

AdjustTracking(s, r) ==
    IF IsDict(r)
    THEN IF Get(r, "privacy_score", 100) < 50
         THEN [s EXCEPT !.trust = @ - 15]
         ELSE IF Get(r, "privacy_score", 100) > 80
              THEN [s EXCEPT !.trust = @ + 5]
              ELSE s
    ELSE s

\* one position of an analyzer: the adjustment `next` is applied and control
\* moves on to `to`
Step(from, to, next) ==
    /\ pc = from
    /\ trust' = next.trust
    /\ verdict' = next.verdict
    /\ pc' = to

UrlHeaders ==
    /\ Step("u_headers", "u_dns", AdjustSecurityHeaders(Cur, security_headers))
    /\ UNCHANGED <<item, gathered, locals, result>>
    /\ UNCHANGED running
    /\ UNCHANGED search_vars

UrlDns ==
    /\ Step("u_dns", "u_privacy", AdjustDns(Cur, dns_security))
    /\ UNCHANGED <<item, gathered, locals, result>>
    /\ UNCHANGED running
    /\ UNCHANGED search_vars

UrlPrivacy ==
    /\ Step("u_privacy", "u_tracking", AdjustPrivacy(Cur, privacy_info))
    /\ UNCHANGED <<item, gathered, locals, result>>
    /\ UNCHANGED running
    /\ UNCHANGED search_vars

UrlTracking ==
    /\ Step("u_tracking", "u_whois", AdjustTracking(Cur, tracking_info))
    /\ UNCHANGED <<item, gathered, locals, result>>
    /\ UNCHANGED running
    /\ UNCHANGED search_vars

\* What the registration lookup comes to: the whois module is missing, or
\* whois.whois(domain) raises, or it answers; age_days is 0 when the answer
\* carries no creation date.
WhoisOutcomes ==
    { [status |-> "not_installed", age_days |-> 0],
      [status |-> "error", age_days |-> 0],
      [status |-> "ok", age_days |-> 0],
      [status |-> "ok", age_days |-> 100],
      [status |-> "ok", age_days |-> 1000] }

AdjustWhois(s, domain, w) ==
    IF IsTrustedDomain(domain) THEN s
    ELSE CASE w.status = "ok" ->
                IF w.age_days < 30
                THEN [trust |-> s.trust - 30, verdict |-> "Very New Domain"]
                ELSE IF w.age_days < 365
                     THEN [trust |-> s.trust - 15, verdict |-> "Recent Domain"]
                     ELSE s
           [] w.status = "not_installed" -> [s EXCEPT !.trust = @ - 10]
           [] w.status = "error" -> [s EXCEPT !.trust = @ - 15]

Registrar(w) ==
    CASE w.status = "ok" -> "Unknown"
      [] w.status = "not_installed" -> "WHOIS Unavailable"
      [] w.status = "error" -> "WHOIS Error"

\* the lookup without its except clause: an exception of whois.whois leaves
\* analyze_url
UrlWhoisUncaught ==
    /\ pc = "u_whois"
    /\ running = NoCall
    /\ \/ /\ \E w \in WhoisOutcomes :
                IF w.status = "error"
                THEN /\ pc' = "raised"
                     /\ UNCHANGED <<trust, verdict, locals>>
                ELSE /\ Step("u_whois", "u_tld", AdjustWhois(Cur, item.domain, w))
                     /\ locals' = locals @@
                            [age_days |-> w.age_days, registrar |-> Registrar(w)]
          /\ UNCHANGED running
       \/ NeverReturns("whois")
    /\ UNCHANGED <<item, gathered, result>>
    /\ UNCHANGED search_vars

UrlWhois ==
    /\ pc = "u_whois"
    /\ running = NoCall
    /\ \/ /\ \E w \in WhoisOutcomes :
                /\ Step("u_whois", "u_tld", AdjustWhois(Cur, item.domain, w))
                /\ locals' = locals @@
                       [age_days |-> w.age_days, registrar |-> Registrar(w)]
          /\ UNCHANGED running
       \/ NeverReturns("whois")
    /\ UNCHANGED <<item, gathered, result>>
    /\ UNCHANGED search_vars

AdjustTld(s, domain) ==
    IF AnyEndsWith(domain, suspicious_tlds)
    THEN [trust |-> s.trust - 35, verdict |-> "Suspicious TLD"]
    ELSE s

UrlTld ==
    /\ Step("u_tld", "u_ip", AdjustTld(Cur, item.domain))
    /\ UNCHANGED <<item, gathered, locals, result>>
    /\ UNCHANGED running
    /\ UNCHANGED search_vars

\* analyze_url without its check for IP addresses
AdjustIpSkipped(s, domain) == s

AdjustIp(s, domain) ==
    IF LooksLikeIp(domain)
    THEN [trust |-> s.trust - 40, verdict |-> "IP Address Used"]
    ELSE s

UrlIp ==
    /\ Step("u_ip", "u_tls", AdjustIp(Cur, item.domain))
    /\ UNCHANGED <<item, gathered, locals, result>>
    /\ UNCHANGED running
    /\ UNCHANGED search_vars

\* What the TLS handshake comes to when the scheme is https: it raises, or
\* getpeercert() is empty, or there is a certificate.  "none" when the
\* scheme is not https and no handshake is made.
TlsOutcomes(scheme) ==
    IF scheme = "https" THEN {"error", "no_cert", "cert"} ELSE {"none"}

AdjustTls(s, domain, scheme, tls) ==
    IF scheme = "https"
    THEN CASE tls = "cert" -> [s EXCEPT !.trust = @ + 10]
           [] tls = "error" ->
                IF ~IsTrustedDomain(domain)
                THEN [s EXCEPT !.trust = @ - 15]
                ELSE [s EXCEPT !.trust = @ - 5]
           [] OTHER -> s
    ELSE IF ~IsTrustedDomain(domain)
         THEN [trust |-> s.trust - 20, verdict |-> "No HTTPS"]
         ELSE s

UrlTls ==
    /\ pc = "u_tls"
    /\ \E tls \in TlsOutcomes(item.scheme) :
          /\ Step("u_tls", "u_phishing",
                  AdjustTls(Cur, item.domain, item.scheme, tls))
          /\ locals' = locals @@ [tls |-> tls, ssl_valid |-> (tls = "cert")]
    /\ UNCHANGED <<item, gathered, result>>
    /\ UNCHANGED running
    /\ UNCHANGED search_vars

AdjustPhishing(s, domain) ==
    IF AnyContained(domain, phishing_words) /\ ~AnyEndsWith(domain, safe_endings)
    THEN [trust |-> s.trust - 40, verdict |-> "Potential Phishing"]
    ELSE s

UrlPhishing ==
    /\ Step("u_phishing", "u_shortener", AdjustPhishing(Cur, item.domain))
    /\ UNCHANGED <<item, gathered, locals, result>>
    /\ UNCHANGED running
    /\ UNCHANGED search_vars

AdjustShortener(s, domain) ==
    IF AnyContained(domain, shorteners)
    THEN [trust |-> s.trust - 20, verdict |-> "URL Shortener"]
    ELSE s

UrlShortener ==
    /\ Step("u_shortener", "u_backlinks", AdjustShortener(Cur, item.domain))
    /\ UNCHANGED <<item, gathered, locals, result>>
    /\ UNCHANGED running
    /\ UNCHANGED search_vars

AdjustBacklinks(s, domain) ==
    IF IsTrustedDomain(domain)
    THEN [s EXCEPT !.trust = @ + 5]
    ELSE [s EXCEPT !.trust = @ - 10]

UrlBacklinks ==
    /\ Step("u_backlinks", "u_final", AdjustBacklinks(Cur, item.domain))
    /\ locals' = locals @@ [known_backlinks |-> IsTrustedDomain(item.domain)]
    /\ UNCHANGED <<item, gathered, result>>
    /\ UNCHANGED running
    /\ UNCHANGED search_vars

\* the verdict for the clamped score t; v is the verdict so far
UrlVerdict(t, v, domain) ==
    IF IsTrustedDomain(domain)
    THEN IF t >= 80 THEN "Trustworthy"
         ELSE IF t >= 70 THEN "Generally Safe" ELSE v
    ELSE IF t < 30 THEN "High Risk"
         ELSE IF t < 50 THEN "Moderate Risk"
         ELSE IF t < 70 THEN "Low Risk" ELSE "Trustworthy"

None == [none |-> TRUE]
\* x if isinstance(x, dict) else None
DictOrNone(r) == IF IsDict(r) THEN r ELSE None
\* truthiness of an optional dict
Truthy(d) == d # None /\ DOMAIN d # {}

\* an assembler that leaves out a bundle carrying an error
OptionalUnlessError(key, d) ==
    IF Truthy(d) /\ ~("error" \in DOMAIN d) THEN key :> d
    ELSE [k \in {} |-> None]

Optional(key, d) == IF Truthy(d) THEN key :> d ELSE [k \in {} |-> None]

make_url_result(t, v, domain_info, ssl_info, backlinks, privacy, headers, dns, tracking) ==
    [trustScore |-> t, verdict |-> v, domainInfo |-> domain_info,
     sslInfo |-> ssl_info, backlinkProfile |-> backlinks]
      @@ Optional("privacyInfo", privacy)
      @@ Optional("securityHeaders", headers)
      @@ Optional("dnsSecurity", dns)
      @@ Optional("trackingInfo", tracking)

UrlFinal ==
    /\ pc = "u_final"
    /\ trust' = Clamp(trust)
    /\ verdict' = UrlVerdict(Clamp(trust), verdict, item.domain)
    /\ result' = make_url_result(trust', verdict',
                    [domain |-> locals.domain, age_days |-> locals.age_days,
                     registrar |-> locals.registrar, protocol |-> item.scheme],
                    [https |-> locals.ssl_valid],
                    [known |-> locals.known_backlinks],
                    DictOrNone(privacy_info), DictOrNone(security_headers),
                    DictOrNone(dns_security), DictOrNone(tracking_info))
    /\ pc' = "done"
    /\ UNCHANGED <<item, gathered, locals>>
    /\ UNCHANGED running
    /\ UNCHANGED search_vars

(***************************************************************************)
(* analyze_text.                                                           *)
(***************************************************************************)
bias_analysis == gathered[1]
quality_analysis == gathered[2]
claims_analysis == gathered[3]
ai_analysis == gathered[4]
facts_analysis == gathered[5]
semantic_analysis == gathered[6]

\* the label TextBlob's polarity gives the text
Sentiments == {"Positive", "Negative", "Neutral"}

\* sentiment.lower()
Lower(sentiment) ==
    CASE sentiment = "Positive" -> "positive"
      [] sentiment = "Negative" -> "negative"
      [] sentiment = "Neutral"  -> "neutral"

TextBase == [trust |-> 70, verdict |-> "Neutral"]

TextStart ==
    /\ pc = "idle"
    /\ item' = [kind |-> "text"]
    /\ trust' = TextBase.trust
    /\ verdict' = TextBase.verdict
    /\ \E sentiment \in Sentiments : locals' = [sentiment |-> sentiment]
    /\ gathered' = [i \in DOMAIN TextProducers |-> Pending]
    /\ result' = NoResult
    /\ pc' = "gather"
    /\ UNCHANGED running
    /\ UNCHANGED search_vars

\* isinstance(r, dict) and not r.get("error")
Usable(r) == IsDict(r) /\ ~HasError(r)

AdjustBias(s, r) ==
    IF Usable(r)
    THEN LET em == Get(r, "emotional_manipulation", 0)
             s1 == IF em > 50
                   THEN [trust |-> s.trust - 30,
                         verdict |-> "High Emotional Manipulation"]
                   ELSE IF em > 30
                        THEN [trust |-> s.trust - 20,
                              verdict |-> "Moderate Bias Detected"]
                        ELSE s
         IN  IF Get(r, "subjectivity", 0) > 80
             THEN [s1 EXCEPT !.trust = @ - 15]
             ELSE s1
    ELSE s

AdjustQuality(s, r) ==
    IF Usable(r)
    THEN LET q == Get(r, "quality_score", 50)
             s1 == IF q < 30
                   THEN [trust |-> s.trust - 25, verdict |-> "Poor Quality Text"]
                   ELSE IF q > 80 THEN [s EXCEPT !.trust = @ + 10] ELSE s
         IN  IF Get(r, "lexical_diversity", 50) < 20
             THEN [s1 EXCEPT !.trust = @ - 20]
             ELSE s1
    ELSE s

AdjustAi(s, r) ==
    IF Usable(r)
    THEN IF Get(r, "ai_likelihood", 0) > 70
         THEN [trust |-> s.trust - 35, verdict |-> "Likely AI-Generated"]
         ELSE IF Get(r, "ai_likelihood", 0) > 50
              THEN [trust |-> s.trust - 20, verdict |-> "Possibly AI-Generated"]
              ELSE s
    ELSE s

AdjustFacts(s, r) ==
    IF Usable(r)
    THEN IF Get(r, "contradicted_facts", 0) > 0
         THEN [trust |-> Min(s.trust, 20),
               verdict |-> "Contains False Information"]
         ELSE IF Get(r, "verified_facts", 0) > 0
              THEN [trust |-> s.trust + Min(20, Get(r, "verified_facts", 0) * 5),
                    verdict |-> "Contains Verified Facts"]
              ELSE s
    ELSE s

AdjustSemantic(s, r) ==
    IF Usable(r)
    THEN IF Get(r, "similarity_score", 0) > 70
         THEN [trust |-> s.trust - 40,
               verdict |-> "Similar to Known Misinformation"]
         ELSE IF Get(r, "similarity_score", 0) > 50
              THEN [trust |-> s.trust - 25, verdict |-> "Potentially Misleading"]
              ELSE s
    ELSE s

AdjustClaims(s, r) ==
    IF Usable(r) /\ Get(r, "claims", 0) > 5
    THEN [s EXCEPT !.trust = @ - 10]
    ELSE s

TextBias ==
    /\ Step("t_bias", "t_quality", AdjustBias(Cur, bias_analysis))
    /\ UNCHANGED <<item, gathered, locals, result>>
    /\ UNCHANGED running
    /\ UNCHANGED search_vars

TextQuality ==
    /\ Step("t_quality", "t_ai", AdjustQuality(Cur, quality_analysis))
    /\ UNCHANGED <<item, gathered, locals, result>>
    /\ UNCHANGED running
    /\ UNCHANGED search_vars

TextAi ==
    /\ Step("t_ai", "t_facts", AdjustAi(Cur, ai_analysis))
    /\ UNCHANGED <<item, gathered, locals, result>>
    /\ UNCHANGED running
    /\ UNCHANGED search_vars

\* contradicted_facts is bound when the dict is read
TextFacts ==
    /\ Step("t_facts", "t_semantic", AdjustFacts(Cur, facts_analysis))
    /\ locals' = IF Usable(facts_analysis)
                 THEN locals @@ [contradicted_facts |->
                                   Get(facts_analysis, "contradicted_facts", 0)]
                 ELSE locals
    /\ UNCHANGED <<item, gathered, result>>
    /\ UNCHANGED running
    /\ UNCHANGED search_vars

TextSemantic ==
    /\ Step("t_semantic", "t_claims", AdjustSemantic(Cur, semantic_analysis))
    /\ UNCHANGED <<item, gathered, locals, result>>
    /\ UNCHANGED running
    /\ UNCHANGED search_vars

TextClaims ==
    /\ Step("t_claims", "t_false_claims", AdjustClaims(Cur, claims_analysis))
    /\ UNCHANGED <<item, gathered, locals, result>>
    /\ UNCHANGED running
    /\ UNCHANGED search_vars

\* the loop over geographical_facts.items(), left at the first match
RECURSIVE KnowledgeLoop(_, _, _)
KnowledgeLoop(s, normalized, k) ==
    IF k > Len(geographical_facts) THEN s
    ELSE IF \/ Contains(geographical_facts[k].fact, normalized)
            \/ Contains(normalized, geographical_facts[k].fact)
         THEN [trust |-> Max(s.trust, geographical_facts[k].score - 5),
               verdict |-> "Verified Factual Statement"]
         ELSE KnowledgeLoop(s, normalized, k + 1)

AdjustKnowledge(s, normalized) == KnowledgeLoop(s, normalized, 1)

\* count is the number of false_claim_patterns the text matches
AdjustFalseClaims(s, count) ==
    IF count > 0
    THEN [trust |-> Max(0, s.trust - count * 30),
          verdict |-> "False Claims Detected"]
    ELSE s

\* analyze_text reads its parameter here for the first time after the
\* sentiment.  The sentiment and the answers of the sub-checks that rest on
\* language models and statistics are drawn without regard to the text, so
\* the text is drawn where it is read; it is one that cross_reference_facts
\* answers as it did.
\* The six analysis dicts are not read from here on; they leave the model.
TextFalseClaims ==
    /\ pc = "t_false_claims"
    /\ \E text \in Texts :
          /\ Usable(facts_analysis)
                => facts_analysis = [check |-> "facts"] @@ Scanned[text].facts
          /\ Step("t_false_claims", "t_misinformation",
                  AdjustFalseClaims(Cur, Scanned[text].false_claim_count))
          /\ locals' = locals @@ [text |-> text]
    /\ gathered' = << >>
    /\ UNCHANGED <<item, result>>
    /\ UNCHANGED running
    /\ UNCHANGED search_vars

\* count is the number of misinformation_patterns the text matches
AdjustMisinformation(s, count) ==
    IF count > 0
    THEN [trust |-> s.trust - count * 20,
          verdict |-> "Potential Misinformation"]
    ELSE s

TextMisinformation ==
    /\ pc = "t_misinformation"
    /\ Step("t_misinformation", "t_knowledge",
            AdjustMisinformation(Cur, Scanned[locals.text].misinformation_count))
    /\ UNCHANGED <<item, gathered, locals, result>>
    /\ UNCHANGED running
    /\ UNCHANGED search_vars

TextKnowledge ==
    /\ pc = "t_knowledge"
    /\ Step("t_knowledge", "t_azure_text",
            AdjustKnowledge(Cur, Scanned[locals.text].text_normalized))
    /\ UNCHANGED <<item, gathered, locals, result>>
    /\ UNCHANGED running
    /\ UNCHANGED search_vars

\* azure_ai.analyze_text_with_azure: no client, or the call fails inside the
\* method, or it answers with a sentiment label; "exc" is an exception at
\* the call site.
AzureTextOutcomes ==
    { [azure_text_analysis |-> "Azure Text Analytics not configured"],
      [azure_text_analysis |-> "Error"],
      [azure_text_analysis |-> "success", sentiment |-> "positive"],
      [azure_text_analysis |-> "success", sentiment |-> "negative"],
      [azure_text_analysis |-> "success", sentiment |-> "unknown"],
      [exc |-> "Exception"] }

AdjustAzureSentiment(s, r, sentiment) ==
    IF /\ Get(r, "azure_text_analysis", "") = "success"
       /\ Get(r, "sentiment", "unknown") # Lower(sentiment)
       /\ Get(r, "sentiment", "unknown") # "unknown"
    THEN [s EXCEPT !.trust = @ - 5]
    ELSE s

\* An exception here leaves the try block: the safety check is not made.
TextAzure ==
    /\ pc = "t_azure_text"
    /\ running = NoCall
    /\ \/ /\ \E r \in AzureTextOutcomes :
                /\ Step("t_azure_text",
                        IF IsExc(r) THEN "t_final" ELSE "t_azure_safety",
                        AdjustAzureSentiment(Cur, r, locals.sentiment))
                /\ locals' = locals @@ [azure_text_analysis |-> r]
          /\ UNCHANGED running
       \/ NeverReturns("azure_text")
    /\ UNCHANGED <<item, gathered, result>>
    /\ UNCHANGED search_vars

\* the categories of a content-safety answer, in the order of the answer
CategoryNames == <<"Hate", "SelfHarm", "Sexual", "Violence">>
Severities == {0, 2, 4}

\* "rejected": category_result.severity >= 4
Details(severity) == [severity |-> severity, rejected |-> severity >= 4]

CategoryLists ==
    UNION { [1..n -> {Details(v) : v \in Severities}] : n \in 0..MaxCategories }

\* azure_ai.check_content_safety_text / check_content_safety_image
SafetyOutcomes ==
    { [content_safety |-> "Azure Content Safety not configured"],
      [content_safety |-> "Error"],
      [exc |-> "Exception"] }
      \cup { [content_safety |-> "success", categories |-> cs] :
                cs \in CategoryLists }

\* the turn analyze_image makes of a rejected category: a penalty of 40
TextSafetyCategoryAsImage(s, category, details) ==
    IF details.rejected
    THEN [trust |-> s.trust - 40, verdict |-> "Harmful Content: " \o category]
    ELSE IF details.severity >= 2
         THEN [trust |-> s.trust - 30,
               verdict |-> "Potentially Harmful: " \o category]
         ELSE s

\* one turn of the loop over safety_categories.items()
TextSafetyCategory(s, category, details) ==
    IF details.rejected
    THEN [trust |-> 0, verdict |-> "Harmful Content: " \o category]
    ELSE IF details.severity >= 2
         THEN [trust |-> s.trust - 30,
               verdict |-> "Potentially Harmful: " \o category]
         ELSE s

RECURSIVE TextSafetyLoop(_, _, _)
TextSafetyLoop(s, categories, k) ==
    IF k > Len(categories) THEN s
    ELSE TextSafetyLoop(
            TextSafetyCategory(s, CategoryNames[k], categories[k]),
            categories, k + 1)

AdjustTextSafety(s, r) ==
    IF Get(r, "content_safety", "") = "success"
    THEN TextSafetyLoop(s, Get(r, "categories", << >>), 1)
    ELSE s

TextSafety ==
    /\ pc = "t_azure_safety"
    /\ running = NoCall
    /\ \/ /\ \E r \in SafetyOutcomes :
                /\ Step("t_azure_safety", "t_final", AdjustTextSafety(Cur, r))
                /\ locals' = locals @@ [safety_analysis |-> r]
          /\ UNCHANGED running
       \/ NeverReturns("azure_safety")
    /\ UNCHANGED <<item, gathered, result>>
    /\ UNCHANGED search_vars

TextVerdict(t) ==
    IF t >= 90 THEN "Highly Trustworthy"
    ELSE IF t >= 75 THEN "Mostly Trustworthy"
    ELSE IF t >= 60 THEN "Generally Reliable"
    ELSE IF t >= 45 THEN "Questionable Content"
    ELSE IF t >= 25 THEN "Likely Unreliable"
    ELSE "High Risk Content"

make_text_result(t, v, summary, sentiment, sources) ==
    [trustScore |-> t, verdict |-> v, summary |-> summary,
     sentiment |-> sentiment, sources |-> sources]

TextFinal ==
    /\ pc = "t_final"
    /\ trust' = Clamp(trust)
    /\ verdict' = TextVerdict(Clamp(trust))
    /\ result' = make_text_result(trust', verdict', "summary",
                                  locals.sentiment, "sources")
    /\ pc' = "done"
    /\ UNCHANGED <<item, gathered, locals>>
    /\ UNCHANGED running
    /\ UNCHANGED search_vars

(***************************************************************************)
(* analyze_image.  An image of the model is what the imaging library makes *)
(* of the bytes: whether they decode, and the format, size, EXIF tags and  *)
(* MD5 prefix they have.  exif_data is a set of <<tag, value>> pairs.      *)
(***************************************************************************)
suspicious_names ==
  << <<"a","i","_","g","e","n","e","r","a","t","e","d">>,
     <<"d","e","e","p","f","a","k","e">>,
     <<"f","a","k","e">>,
     <<"s","y","n","t","h","e","t","i","c">>,
     <<"g","e","n","e","r","a","t","e","d">>,
     <<"a","r","t","i","f","i","c","i","a","l">> >>

camera_names ==
  << <<"c","a","m","e","r","a">>,
     <<"p","h","o","t","o">>,
     <<"i","m","g">>,
     <<"d","s","c">> >>

editing_tools ==
  << <<"p","h","o","t","o","s","h","o","p">>,
     <<"g","i","m","p">>,
     <<"a","i">>,
     <<"g","e","n","e","r","a","t","e","d">> >>

\* upload.jpg, Fake_Photo.jpg, DSC_0001.JPG
Filenames ==
    { <<"u","p","l","o","a","d",".","j","p","g">>,
      <<"F","a","k","e","_","P","h","o","t","o",".","j","p","g">>,
      <<"D","S","C","_","0","0","0","1",".","J","P","G">> }

\* decode: "ok", or "open_fails" (Image.open raises), or "exif_fails" (the
\* image opens and reading its EXIF block raises)
Images ==
    { [decode |-> "open_fails", file_size |-> 500, format |-> "", width |-> 0,
       height |-> 0, exif |-> {}, hash_int |-> 7],
      [decode |-> "open_fails", file_size |-> 5000, format |-> "", width |-> 0,
       height |-> 0, exif |-> {}, hash_int |-> 26],
      [decode |-> "exif_fails", file_size |-> 1000, format |-> "JPEG",
       width |-> 640, height |-> 480, exif |-> {}, hash_int |-> 7],
      [decode |-> "ok", file_size |-> 21000000, format |-> "JPEG",
       width |-> 4000, height |-> 3500,
       exif |-> {<<"Make", "Canon">>, <<"Model", "EOS">>}, hash_int |-> 7],
      [decode |-> "ok", file_size |-> 900, format |-> "PNG",
       width |-> 200, height |-> 200, exif |-> {}, hash_int |-> 26],
      [decode |-> "ok", file_size |-> 200000, format |-> "JPEG",
       width |-> 1000, height |-> 1000,
       exif |-> {<<"Make", "Canon">>, <<"Model", "EOS">>,
                 <<"Software", <<"A","d","o","b","e"," ","P","h","o","t","o",
                                 "s","h","o","p">> >>},
       hash_int |-> 7],
      [decode |-> "ok", file_size |-> 20971520, format |-> "GIF",
       width |-> 1000, height |-> 1000, exif |-> {}, hash_int |-> 7] }

\* key in exif_data
HasTag(exif_data, key) == \E p \in exif_data : p[1] = key
\* exif_data[key]
Tag(exif_data, key) == (CHOOSE p \in exif_data : p[1] = key)[2]

\* The locals the try block and its except clause leave behind.  The except
\* clause sets file_format, metadata, width and height; exif_data is bound
\* only if the try block got as far as binding it.
Decoded(img) ==
    CASE img.decode = "ok" ->
            [file_size |-> img.file_size, file_format |-> img.format,
             width |-> img.width, height |-> img.height,
             exif_data |-> img.exif,
             metadata |-> IF img.exif # {}
                          THEN <<"Filename", "Format", "Dimensions",
                                 "Color Mode", "Size", "MD5 Hash", "EXIF">>
                          ELSE <<"Filename", "Format", "Dimensions",
                                 "Color Mode", "Size", "MD5 Hash",
                                 "EXIF Data">>]
      [] img.decode = "exif_fails" ->
            [file_size |-> img.file_size, file_format |-> "Corrupted/Invalid",
             width |-> 0, height |-> 0, exif_data |-> {},
             metadata |-> <<"Filename", "Format", "Size", "Error">>]
      [] img.decode = "open_fails" ->
            [file_size |-> img.file_size, file_format |-> "Corrupted/Invalid",
             width |-> 0, height |-> 0,
             metadata |-> <<"Filename", "Format", "Size", "Error">>]

ImageBase == [trust |-> 75, verdict |-> "Likely Authentic"]

ImageStart ==
    /\ pc = "idle"
    /\ \E img \in Images, filename \in Filenames :
          /\ item' = [kind |-> "image", content |-> img, filename |-> filename]
          /\ locals' = Decoded(img) @@ [compression |-> << >>]
    /\ trust' = ImageBase.trust
    /\ verdict' = ImageBase.verdict
    /\ gathered' = << >>
    /\ result' = NoResult
    /\ pc' = "i_compression"
    /\ UNCHANGED running
    /\ UNCHANGED search_vars

\* estimate_jpeg_quality(content): the estimate, and whether it is the
\* default of the function's own except clause.  The function catches
\* every Exception itself, so none reaches the caller's except clause.
JpegQualities ==
    { [quality |-> 40, failed |-> FALSE], [quality |-> 75, failed |-> FALSE],
      [quality |-> 98, failed |-> FALSE], [quality |-> 75, failed |-> TRUE] }

AdjustCompression(s, file_format, q) ==
    CASE file_format = "JPEG" ->
            IF IsExc(q) THEN [s EXCEPT !.trust = @ - 10]
            ELSE IF q.quality < 50
                 THEN [trust |-> s.trust - 25,
                       verdict |-> "Possible Recompression"]
                 ELSE IF q.quality > 95
                      THEN [s EXCEPT !.trust = @ + 10]
                      ELSE s
      [] file_format = "PNG" -> [s EXCEPT !.trust = @ + 5]
      [] OTHER -> [s EXCEPT !.trust = @ - 5]

CompressionNotes(file_format, q) ==
    CASE file_format = "JPEG" ->
            IF IsExc(q) THEN <<"Quality Analysis: Failed">>
            ELSE <<"Estimated Quality", "Compression Type",
                   IF q.quality < 50 THEN "Recompression: Likely"
                   ELSE IF q.quality > 95 THEN "Recompression: Unlikely"
                   ELSE "Recompression: Possible">>
      [] file_format = "PNG" -> <<"Compression Type", "Transparency">>
      [] OTHER -> <<"Compression Analysis: Not supported for this format">>

ImageCompression ==
    /\ pc = "i_compression"
    /\ \E q \in IF locals.file_format = "JPEG" THEN JpegQualities
                ELSE {[quality |-> 0, failed |-> FALSE]} :
          /\ Step("i_compression", "i_size",
                  AdjustCompression(Cur, locals.file_format, q))
          /\ locals' = [locals EXCEPT
                          !.compression = CompressionNotes(locals.file_format, q)]
                       @@ [artifacts |-> << >>]
                       @@ (IF locals.file_format = "JPEG"
                           THEN [jpeg_quality |-> q]
                           ELSE [k \in {} |-> q])
    /\ UNCHANGED <<item, gathered, result>>
    /\ UNCHANGED running
    /\ UNCHANGED search_vars

\* the file-size check with both thresholds inclusive
AdjustSizeInclusive(s, file_size) ==
    IF file_size <= 1000 THEN [s EXCEPT !.trust = @ - 30]
    ELSE IF file_size >= 20 * 1024 * 1024 THEN [s EXCEPT !.trust = @ + 10]
    ELSE s

AdjustSize(s, file_size) ==
    IF file_size < 1000 THEN [s EXCEPT !.trust = @ - 30]
    ELSE IF file_size > 20 * 1024 * 1024 THEN [s EXCEPT !.trust = @ + 10]
    ELSE s

SizeNotes(file_size) ==
    IF file_size < 1000
    THEN <<"Extremely small file size - possibly heavily processed">>
    ELSE IF file_size > 20 * 1024 * 1024
         THEN <<"Very large file size - likely original/high quality">>
         ELSE << >>

\* artifacts.append / artifacts.extend
Noted(notes) == [locals EXCEPT !.artifacts = @ \o notes]

ImageSize ==
    /\ Step("i_size", "i_resolution", AdjustSize(Cur, locals.file_size))
    /\ locals' = Noted(SizeNotes(locals.file_size))
    /\ UNCHANGED <<item, gathered, result>>
    /\ UNCHANGED running
    /\ UNCHANGED search_vars

AdjustResolution(s, width, height) ==
    IF width > 0 /\ height > 0
    THEN IF width * height > 12000000 THEN [s EXCEPT !.trust = @ + 15]
         ELSE IF width * height < 100000 THEN [s EXCEPT !.trust = @ - 20]
         ELSE s
    ELSE s

ResolutionNotes(width, height) ==
    IF width > 0 /\ height > 0
    THEN IF width * height > 12000000
         THEN <<"High resolution - likely original photo">>
         ELSE IF width * height < 100000
              THEN <<"Very low resolution - heavily downscaled">>
              ELSE << >>
    ELSE << >>

ImageResolution ==
    /\ Step("i_resolution", "i_exif",
            AdjustResolution(Cur, locals.width, locals.height))
    /\ locals' = Noted(ResolutionNotes(locals.width, locals.height))
    /\ UNCHANGED <<item, gathered, result>>
    /\ UNCHANGED running
    /\ UNCHANGED search_vars

EditedBySoftware(exif_data) ==
    /\ HasTag(exif_data, "Software")
    /\ AnyContained(lower(Tag(exif_data, "Software")), editing_tools)

AdjustExif(s, exif_data) ==
    IF exif_data = {} THEN [s EXCEPT !.trust = @ - 15]
    ELSE LET s1 == IF HasTag(exif_data, "Make") /\ HasTag(exif_data, "Model")
                   THEN [s EXCEPT !.trust = @ + 10]
                   ELSE s
         IN  IF EditedBySoftware(exif_data)
             THEN [s1 EXCEPT !.trust = @ - 20]
             ELSE s1

ExifNotes(exif_data) ==
    IF exif_data = {}
    THEN <<"No EXIF data - metadata stripped or generated">>
    ELSE (IF HasTag(exif_data, "Make") /\ HasTag(exif_data, "Model")
          THEN <<"Camera metadata present">> ELSE << >>)
         \o (IF EditedBySoftware(exif_data)
             THEN <<"Editing software detected in metadata">> ELSE << >>)

\* reading exif_data when the try block never bound it is an
\* UnboundLocalError, and nothing around it catches
ExifBound(l) == "exif_data" \in DOMAIN l

ImageExif ==
    /\ pc = "i_exif"
    /\ IF ExifBound(locals)
       THEN /\ Step("i_exif", "i_hash",
                    AdjustExif(Cur, Get(locals, "exif_data", {})))
            /\ locals' = Noted(ExifNotes(Get(locals, "exif_data", {})))
       ELSE /\ pc' = "raised"
            /\ UNCHANGED <<trust, verdict, locals>>
    /\ UNCHANGED <<item, gathered, result>>
    /\ UNCHANGED running
    /\ UNCHANGED search_vars

AdjustHash(s, hash_int) ==
    IF hash_int % 13 = 0 THEN [s EXCEPT !.trust = @ - 15] ELSE s

HashNotes(hash_int) ==
    IF hash_int % 13 = 0
    THEN <<"Unusual file structure patterns detected">> ELSE << >>

ImageHash ==
    /\ Step("i_hash", "i_filename", AdjustHash(Cur, item.content.hash_int))
    /\ locals' = Noted(HashNotes(item.content.hash_int))
    /\ UNCHANGED <<item, gathered, result>>
    /\ UNCHANGED running
    /\ UNCHANGED search_vars

AdjustFilename(s, filename_lower) ==
    LET s1 == IF AnyContained(filename_lower, suspicious_names)
              THEN [trust |-> s.trust - 35,
                    verdict |-> "High Risk - Filename Suggests AI"]
              ELSE s
    IN  IF AnyContained(filename_lower, camera_names)
        THEN [s1 EXCEPT !.trust = @ + 5]
        ELSE s1

FilenameNotes(filename_lower) ==
    (IF AnyContained(filename_lower, suspicious_names)
     THEN <<"Suspicious filename indicates artificial content">> ELSE << >>)
    \o (IF AnyContained(filename_lower, camera_names)
        THEN <<"Filename suggests camera capture">> ELSE << >>)

ImageFilename ==
    /\ Step("i_filename", "i_deepfake", AdjustFilename(Cur, lower(item.filename)))
    /\ locals' = Noted(FilenameNotes(lower(item.filename)))
    /\ UNCHANGED <<item, gathered, result>>
    /\ UNCHANGED running
    /\ UNCHANGED search_vars

\* detect_deepfake_indicators: the heuristics are numeric and left open; the
\* except clause of the function gives the first outcome, and it is the
\* only one for bytes that do not open
DeepfakeFailed ==
    [artifacts |-> <<"Deepfake analysis failed">>, suspicion_score |-> 10,
     high_risk |-> FALSE]

DeepfakeOutcomes(decode) ==
    IF decode = "open_fails" THEN {DeepfakeFailed}
    ELSE { DeepfakeFailed,
           [artifacts |-> << >>, suspicion_score |-> 0, high_risk |-> FALSE],
           [artifacts |-> <<"Inconsistent edge patterns found",
                            "Statistical distribution anomalies">>,
            suspicion_score |-> 45, high_risk |-> FALSE],
           [artifacts |-> <<"Facial feature inconsistencies detected">>,
            suspicion_score |-> 35, high_risk |-> TRUE],
           [artifacts |-> <<"Suspicious frequency patterns detected",
                            "Inconsistent edge patterns found",
                            "Inconsistent lighting/shadows detected",
                            "Unnatural texture patterns found">>,
            suspicion_score |-> 95, high_risk |-> TRUE] }

\* the deepfake step without the cap at 25
AdjustDeepfakeUncapped(s, d) ==
    IF d.high_risk
    THEN [trust |-> s.trust - d.suspicion_score,
          verdict |-> "High Risk - Possible Deepfake"]
    ELSE [s EXCEPT !.trust = @ - d.suspicion_score]

AdjustDeepfake(s, d) ==
    IF d.high_risk
    THEN [trust |-> Min(s.trust - d.suspicion_score, 25),
          verdict |-> "High Risk - Possible Deepfake"]
    ELSE [s EXCEPT !.trust = @ - d.suspicion_score]

ImageDeepfake ==
    /\ pc = "i_deepfake"
    /\ \E d \in DeepfakeOutcomes(item.content.decode) :
          /\ Step("i_deepfake", "i_azure_vision", AdjustDeepfake(Cur, d))
          /\ locals' = Noted(d.artifacts) @@ [deepfake_indicators |-> d]
    /\ UNCHANGED <<item, gathered, result>>
    /\ UNCHANGED running
    /\ UNCHANGED search_vars

\* azure_ai.analyze_image_with_azure
AzureVisionOutcomes ==
    { [azure_analysis |-> "Azure Computer Vision not configured"],
      [azure_analysis |-> "Error"],
      [exc |-> "Exception"],
      [azure_analysis |-> "success", faces |-> 0,
       adult_content |-> [is_adult |-> FALSE, is_racy |-> FALSE]],
      [azure_analysis |-> "success", faces |-> 0,
       adult_content |-> [is_adult |-> FALSE, is_racy |-> TRUE]],
      [azure_analysis |-> "success", faces |-> 5,
       adult_content |-> [is_adult |-> FALSE, is_racy |-> FALSE]] }

IsAdult(r) ==
    LET adult_content == Get(r, "adult_content", [absent |-> TRUE])
    IN  Get(adult_content, "is_adult", FALSE)
            \/ Get(adult_content, "is_racy", FALSE)

AdjustAzureVision(s, r) ==
    IF Get(r, "azure_analysis", "") = "success"
    THEN LET s1 == IF IsAdult(r)
                   THEN [trust |-> s.trust - 30,
                         verdict |-> "Inappropriate Content Detected"]
                   ELSE s
         IN  IF Get(r, "faces", 0) > 3
             THEN [s1 EXCEPT !.trust = @ - 10]
             ELSE s1
    ELSE s

AzureVisionNotes(r) ==
    IF IsExc(r) THEN <<"Azure analysis failed">>
    ELSE IF Get(r, "azure_analysis", "") = "success"
    THEN (IF IsAdult(r)
          THEN <<"Azure detected adult/inappropriate content">> ELSE << >>)
         \o (IF Get(r, "faces", 0) > 3
             THEN <<"Multiple faces detected - possible composite">>
             ELSE << >>)
    ELSE << >>

\* An exception here leaves the try block: the safety check is not made.
ImageAzureVision ==
    /\ pc = "i_azure_vision"
    /\ running = NoCall
    /\ \/ /\ \E r \in AzureVisionOutcomes :
                /\ Step("i_azure_vision",
                        IF IsExc(r) THEN "i_final" ELSE "i_azure_safety",
                        AdjustAzureVision(Cur, r))
                /\ locals' = Noted(AzureVisionNotes(r)) @@ [azure_analysis |-> r]
          /\ UNCHANGED running
       \/ NeverReturns("azure_vision")
    /\ UNCHANGED <<item, gathered, result>>
    /\ UNCHANGED search_vars

\* one turn of the loop over safety_categories.items()
ImageSafetyCategory(s, details) ==
    IF details.rejected
    THEN [trust |-> s.trust - 40, verdict |-> "Harmful Content Detected"]
    ELSE IF details.severity >= 2
         THEN [s EXCEPT !.trust = @ - 15]
         ELSE s

RECURSIVE ImageSafetyLoop(_, _, _)
ImageSafetyLoop(s, categories, k) ==
    IF k > Len(categories) THEN s
    ELSE ImageSafetyLoop(ImageSafetyCategory(s, categories[k]),
                         categories, k + 1)

AdjustImageSafety(s, r) ==
    IF Get(r, "content_safety", "") = "success"
    THEN ImageSafetyLoop(s, Get(r, "categories", << >>), 1)
    ELSE s

RECURSIVE ImageSafetyNotes(_, _)
ImageSafetyNotes(categories, k) ==
    IF k > Len(categories) THEN << >>
    ELSE (IF categories[k].rejected
          THEN <<"Azure flagged as " \o CategoryNames[k]>>
          ELSE IF categories[k].severity >= 2
               THEN <<"Azure detected potential " \o CategoryNames[k]>>
               ELSE << >>)
         \o ImageSafetyNotes(categories, k + 1)

SafetyNotes(r) ==
    IF IsExc(r) THEN <<"Azure analysis failed">>
    ELSE IF Get(r, "content_safety", "") = "success"
    THEN ImageSafetyNotes(Get(r, "categories", << >>), 1)
    ELSE << >>

ImageAzureSafety ==
    /\ pc = "i_azure_safety"
    /\ running = NoCall
    /\ \/ /\ \E r \in SafetyOutcomes :
                /\ Step("i_azure_safety", "i_final", AdjustImageSafety(Cur, r))
                /\ locals' = Noted(SafetyNotes(r)) @@ [safety_analysis |-> r]
          /\ UNCHANGED running
       \/ NeverReturns("azure_safety")
    /\ UNCHANGED <<item, gathered, result>>
    /\ UNCHANGED search_vars

ImageVerdict(t) ==
    IF t >= 85 THEN "Highly Authentic"
    ELSE IF t >= 70 THEN "Likely Authentic"
    ELSE IF t >= 50 THEN "Questionable Authenticity"
    ELSE IF t >= 30 THEN "Likely Manipulated"
    ELSE "High Risk - Possible AI/Deepfake"

make_image_result(t, v, metadata, compression, artifacts) ==
    [trustScore |-> t, verdict |-> v,
     analysis |-> [metadata |-> metadata, compression |-> compression,
                   artifacts |-> artifacts]]

ImageFinal ==
    /\ pc = "i_final"
    /\ trust' = Clamp(trust)
    /\ verdict' = ImageVerdict(Clamp(trust))
    /\ result' = make_image_result(trust', verdict', locals.metadata,
                                   locals.compression, locals.artifacts)
    /\ pc' = "done"
    /\ UNCHANGED <<item, gathered, locals>>
    /\ UNCHANGED running
    /\ UNCHANGED search_vars

(***************************************************************************)
(* The caller takes the result; the next request starts from nothing.      *)
(***************************************************************************)
\* a return that keeps the sub-check results for the next request
ReturnKeepingResults ==
    /\ pc \in {"done", "raised"}
    /\ pc' = "idle"
    /\ item' = NoItem
    /\ trust' = 0
    /\ verdict' = ""
    /\ locals' = NoLocals
    /\ result' = NoResult
    /\ running' = NoCall
    /\ UNCHANGED gathered
    /\ UNCHANGED search_vars

Return ==
    /\ pc \in {"done", "raised"}
    /\ pc' = "idle"
    /\ item' = NoItem
    /\ trust' = 0
    /\ verdict' = ""
    /\ gathered' = << >>
    /\ locals' = NoLocals
    /\ result' = NoResult
    /\ running' = NoCall
    /\ UNCHANGED search_vars

Init ==
    /\ pc = "idle"
    /\ item = NoItem
    /\ trust = 0
    /\ verdict = ""
    /\ gathered = << >>
    /\ locals = NoLocals
    /\ result = NoResult
    /\ running = NoCall
    /\ fact_checker = [session |-> NoSession]
    /\ http = << >>
    /\ calls = [c \in Callers |-> NoFrame]

Next ==
    \/ UrlStart
    \/ \E i \in 1..6 : StartSubcheck(i)
    \/ \E i \in 1..6 : RunSubcheck(i)
    \/ Join
    \/ UrlHeaders \/ UrlDns \/ UrlPrivacy \/ UrlTracking
    \/ UrlWhois \/ UrlTld \/ UrlIp \/ UrlTls
    \/ UrlPhishing \/ UrlShortener \/ UrlBacklinks \/ UrlFinal
    \/ TextStart
    \/ TextBias \/ TextQuality \/ TextAi \/ TextFacts \/ TextSemantic
    \/ TextClaims \/ TextFalseClaims \/ TextMisinformation \/ TextKnowledge
    \/ TextAzure \/ TextSafety \/ TextFinal
    \/ ImageStart
    \/ ImageCompression \/ ImageSize \/ ImageResolution \/ ImageExif
    \/ ImageHash \/ ImageFilename \/ ImageDeepfake
    \/ ImageAzureVision \/ ImageAzureSafety \/ ImageFinal
    \/ Return

Spec == Init /\ [][Next]_vars

(***************************************************************************)
(* realtime_analyzer.py.  fact_checker is created once, when the module is *)
(* imported, and every coroutine of the module works on it.  A caller is a *)
(* task of the event loop; an action runs a caller's coroutine from one    *)
(* suspension point to the next, so the actions of different callers       *)
(* interleave exactly where the coroutines await the network.              *)
(* get_session and close hold no such await: aiohttp marks a session       *)
(* closed before close() suspends.                                         *)
(***************************************************************************)
\* RealTimeFactChecker.get_session: the session the call returns, and the
\* checker and the sessions after it
get_session ==
    IF fact_checker.session = NoSession
    THEN [session |-> Len(http) + 1,
          fact_checker |-> [fact_checker EXCEPT !.session = Len(http) + 1],
          http |-> Append(http, "open")]
    ELSE [session |-> fact_checker.session,
          fact_checker |-> fact_checker,
          http |-> http]

\* a caller awaits fact_checker.get_session()
GetSession(c) ==
    /\ calls[c].op = "none"
    /\ fact_checker' = get_session.fact_checker
    /\ http' = get_session.http
    /\ calls' = [calls EXCEPT ![c] =
                    [NoFrame EXCEPT !.op = "get_session", !.pc = "returned",
                                    !.session = get_session.session]]
    /\ UNCHANGED analyzer_vars

\* a caller awaits fact_checker.close(): self.session is tested and closed,
\* and keeps naming the session
Close(c) ==
    /\ calls[c].op = "none"
    /\ http' = IF fact_checker.session # NoSession
               THEN [http EXCEPT ![fact_checker.session] = "closed"]
               ELSE http
    /\ calls' = [calls EXCEPT ![c] =
                    [NoFrame EXCEPT !.op = "close", !.pc = "returned"]]
    /\ UNCHANGED fact_checker
    /\ UNCHANGED analyzer_vars

\* search_web from its first line to the await of session.get
Searching(frame) ==
    [frame EXCEPT !.pc = "get", !.session = get_session.session]

\* a caller awaits fact_checker.search_web(query)
SearchWeb(c) ==
    /\ calls[c].op = "none"
    /\ fact_checker' = get_session.fact_checker
    /\ http' = get_session.http
    /\ calls' = [calls EXCEPT ![c] =
                    Searching([NoFrame EXCEPT !.op = "search_web"])]
    /\ UNCHANGED analyzer_vars

\* What `async with session.get(search_url)` and the reading of the page
\* come to, as the number of results search_web returns.  A closed session
\* raises RuntimeError in session.get; every exception ends in the except
\* clause of search_web, which returns [].
Responses(state) ==
    IF state = "closed"
    THEN { [exc |-> "RuntimeError", status |-> 0, results |-> 0] }
    ELSE { [exc |-> "none", status |-> 200, results |-> 2],
           [exc |-> "none", status |-> 200, results |-> 0],
           [exc |-> "none", status |-> 503, results |-> 0],
           [exc |-> "ClientError", status |-> 0, results |-> 0] }

\* claims_found[:3] and key_phrases[:2]: the searches one analysis makes at
\* most for geographic claims and for fact-checking sites
GeoSearches == 3
FactSearches == 2

\* where analyze_text_credibility goes on: the next search of
\* verify_geographic_claim, then of check_with_fact_checkers, then the
\* combination of the factors
Staged(frame) ==
    IF frame.geo > 0 THEN [frame EXCEPT !.pc = "search", !.stage = "geo"]
    ELSE IF frame.fact > 0
         THEN [frame EXCEPT !.pc = "search", !.stage = "fact"]
         ELSE [frame EXCEPT !.pc = "combine", !.stage = "none"]

\* search_web returns to its caller: to the client that called it, or to
\* the loop of the analysis, which goes to its next claim or phrase
SearchGet(c) ==
    /\ calls[c].pc = "get"
    /\ \E r \in Responses(http[calls[c].session]) :
          calls' = [calls EXCEPT ![c] =
                      IF @.op = "search_web"
                      THEN [@ EXCEPT !.pc = "returned",
                                     !.result = [results |-> r.results]]
                      ELSE IF @.stage = "geo"
                           THEN Staged([@ EXCEPT !.geo = @ - 1])
                           ELSE Staged([@ EXCEPT !.fact = @ - 1])]
    /\ UNCHANGED <<fact_checker, http>>
    /\ UNCHANGED analyzer_vars

\* TextBlob(text) and blob.sentiment in analyze_text_credibility: the
\* library answers or raises
SentimentOutcomes == { [exc |-> "none"], [exc |-> "Exception"] }

\* the label analyze_text_credibility gives the polarity
SentimentLabels == {"Positive", "Negative", "Neutral"}

\* the except clause of analyze_text_with_search
SearchFallback(e) ==
    [trustScore |-> 50,
     verdict |-> "Analysis Incomplete - Web search unavailable",
     summary |-> "Basic analysis only. Web search error: " \o e,
     sentiment |-> "Neutral", sources |-> << >>, error |-> e]

\* analyze_text_with_search without its try statement
AnalyzeStartUncaught(c) ==
    /\ calls[c].op = "none"
    /\ \E s \in SentimentOutcomes, geo \in 0..GeoSearches,
          fact \in 0..FactSearches :
          calls' = [calls EXCEPT ![c] =
                      IF s.exc # "none"
                      THEN [NoFrame EXCEPT !.op = "analyze", !.pc = "raised",
                                           !.exc = s.exc]
                      ELSE Staged([NoFrame EXCEPT
                                      !.op = "analyze", !.geo = geo,
                                      !.fact = fact])]
    /\ UNCHANGED <<fact_checker, http>>
    /\ UNCHANGED analyzer_vars

\* a caller awaits analyze_text_with_search(text); geo and fact are the
\* numbers of claims and phrases the text gives rise to.  An exception of
\* analyze_text_credibility is caught and the fallback is returned.
AnalyzeStart(c) ==
    /\ calls[c].op = "none"
    /\ \E s \in SentimentOutcomes, geo \in 0..GeoSearches,
          fact \in 0..FactSearches :
          calls' = [calls EXCEPT ![c] =
                      IF s.exc # "none"
                      THEN [NoFrame EXCEPT !.op = "analyze",
                                           !.pc = "returned", !.exc = s.exc,
                                           !.result = SearchFallback(s.exc)]
                      ELSE Staged([NoFrame EXCEPT
                                      !.op = "analyze", !.geo = geo,
                                      !.fact = fact])]
    /\ UNCHANGED <<fact_checker, http>>
    /\ UNCHANGED analyzer_vars

\* the analysis calls search_web for its next claim or phrase
AnalyzeSearch(c) ==
    /\ calls[c].op = "analyze"
    /\ calls[c].pc = "search"
    /\ fact_checker' = get_session.fact_checker
    /\ http' = get_session.http
    /\ calls' = [calls EXCEPT ![c] = Searching(@)]
    /\ UNCHANGED analyzer_vars

\* final_score = max(5, min(95, int(... * 100))): the factors are floats,
\* and the model takes the score from the range the clamp leaves
FinalScores == {5, 39, 40, 60, 80, 95}

SearchVerdict(final_score) ==
    IF final_score >= 80 THEN "Highly Reliable - Verified by web search"
    ELSE IF final_score >= 60
         THEN "Generally Reliable - Some verification found"
         ELSE IF final_score >= 40
              THEN "Moderately Reliable - Mixed evidence"
              ELSE "Questionable Reliability - Contradicted by sources"

\* analyze_text_credibility combines the factors and returns
AnalyzeFinish(c) ==
    /\ calls[c].op = "analyze"
    /\ calls[c].pc = "combine"
    /\ \E final_score \in FinalScores, sentiment_label \in SentimentLabels :
          calls' = [calls EXCEPT ![c] =
                      [@ EXCEPT !.pc = "returned",
                                !.result =
                                   [trustScore |-> final_score,
                                    verdict |-> SearchVerdict(final_score),
                                    summary |-> "Real-time analysis",
                                    sentiment |-> sentiment_label,
                                    sources |-> <<"duckduckgo", "snopes">>]]]
    /\ UNCHANGED <<fact_checker, http>>
    /\ UNCHANGED analyzer_vars

\* the caller takes what its coroutine returned or raised
Resume(c) ==
    /\ calls[c].pc \in {"returned", "raised"}
    /\ calls' = [calls EXCEPT ![c] = NoFrame]
    /\ UNCHANGED <<fact_checker, http>>
    /\ UNCHANGED analyzer_vars

NextSearch ==
    \/ \E c \in Callers : GetSession(c)
    \/ \E c \in Callers : Close(c)
    \/ \E c \in Callers : SearchWeb(c)
    \/ \E c \in Callers : SearchGet(c)
    \/ \E c \in Callers : AnalyzeStart(c)
    \/ \E c \in Callers : AnalyzeSearch(c)
    \/ \E c \in Callers : AnalyzeFinish(c)
    \/ \E c \in Callers : Resume(c)

SpecSearch == Init /\ [][NextSearch]_vars

(***************************************************************************)
(* What a request's score should be, written as one expression over the    *)
(* outcomes of its sub-checks.  `skip` names the sub-checks that are to    *)
(* contribute nothing.                                                     *)
(***************************************************************************)
\* the value the awaitable named c handed back
ByName(c) == gathered[CHOOSE k \in DOMAIN gathered : gathered[k].check = c]

\* a sub-check of the fan-out that did not produce its analysis: it raised,
\* or its own except clause ran, or (DNS) no lookup was answered
Failed(r) ==
    \/ IsExc(r)
    \/ HasError(r)
    \/ Get(r, "check", "") = "dns" /\ Get(r, "security_score", 1) = 0

Unless(skip, c, s, adjusted) == IF c \in skip THEN s ELSE adjusted

UrlBlock(s, skip) ==
    LET s1 == Unless(skip, "headers", s,
                     AdjustSecurityHeaders(s, ByName("headers")))
        s2 == Unless(skip, "dns", s1, AdjustDns(s1, ByName("dns")))
        s3 == Unless(skip, "privacy", s2, AdjustPrivacy(s2, ByName("privacy")))
    IN  Unless(skip, "tracking", s3, AdjustTracking(s3, ByName("tracking")))

\* the registration lookup that left these locals
WhoisOf(l) ==
    [status |-> CASE l.registrar = "WHOIS Unavailable" -> "not_installed"
                  [] l.registrar = "WHOIS Error" -> "error"
                  [] OTHER -> "ok",
     age_days |-> l.age_days]

UrlFold(skip) ==
    LET d  == item.domain
        s4 == UrlBlock(UrlBase(d), skip)
        s5 == Unless(skip, "whois", s4, AdjustWhois(s4, d, WhoisOf(locals)))
        s6 == AdjustIp(AdjustTld(s5, d), d)
        s7 == Unless(skip, "tls", s6, AdjustTls(s6, d, item.scheme, locals.tls))
    IN  AdjustBacklinks(AdjustShortener(AdjustPhishing(s7, d), d), d)

TextBlock(s) ==
    AdjustClaims(
      AdjustSemantic(
        AdjustFacts(
          AdjustAi(
            AdjustQuality(AdjustBias(s, ByName("bias")), ByName("quality")),
            ByName("ai")),
          ByName("facts")),
        ByName("semantic")),
      ByName("claims"))

ImageFold(skip) ==
    LET s1 == AdjustCompression(ImageBase, locals.file_format,
                Get(locals, "jpeg_quality", [quality |-> 0, failed |-> FALSE]))
        s2 == AdjustResolution(AdjustSize(s1, locals.file_size),
                               locals.width, locals.height)
        s3 == AdjustFilename(
                AdjustHash(AdjustExif(s2, locals.exif_data),
                           item.content.hash_int),
                lower(item.filename))
        s4 == Unless(skip, "deepfake", s3,
                     AdjustDeepfake(s3, locals.deepfake_indicators))
        s5 == AdjustAzureVision(s4, locals.azure_analysis)
    IN  AdjustImageSafety(s5, Get(locals, "safety_analysis",
                                  [content_safety |-> "not made"]))

\* the sub-checks of a finished URL request that failed
UrlFailures ==
    {c \in {"privacy", "headers", "dns", "tracking"} : Failed(ByName(c))}
        \cup (IF locals.registrar = "WHOIS Error" THEN {"whois"} ELSE {})
        \cup (IF locals.tls = "error" THEN {"tls"} ELSE {})

\* the notes a finished image request hands back
ImageNotes ==
    {result.analysis.artifacts[k] : k \in DOMAIN result.analysis.artifacts}
      \cup {result.analysis.metadata[k] : k \in DOMAIN result.analysis.metadata}
      \cup {result.analysis.compression[k] :
               k \in DOMAIN result.analysis.compression}

(***************************************************************************)
(* C1.  Whatever the sub-checks come to (an analysis, an error dict, an    *)
(* exception), the trustScore an analyzer returns is an integer from 0 to  *)
(* 100.                                                                    *)
(***************************************************************************)
C1_ReturnedScoreInRange == pc = "done" => result.trustScore \in 0..100

\* an allow-listed URL whose checks all add to the score: 85 + 10 + 8 + 5
\* + 10 + 5 is past 100 before the final clamp
C1_Witness ==
    /\ pc = "done"
    /\ item.kind = "url"
    /\ IsTrustedDomain(item.domain)
    /\ Get(security_headers, "security_score", 0) > 50
    /\ Get(dns_security, "security_score", 0) > 40
    /\ Get(privacy_info, "has_privacy_policy", FALSE)
    /\ locals.tls = "cert"
    /\ result.trustScore = 100

(***************************************************************************)
(* C2.  The running score is from 0 to 100 after every adjustment of a     *)
(* request, not only after the last one.                                   *)
(***************************************************************************)
C2_RunningScoreInRange == pc # "idle" => trust \in 0..100

(***************************************************************************)
(* C3.  When every sub-check of a request fails, the request returns the   *)
(* base score of its kind (70 text, 75 URL, 85 allow-listed URL, 75 image) *)
(* and the verdict the table gives for that score.  The text sub-check     *)
(* results are last read at the end of the aggregation block, and the      *)
(* text part is stated there.                                              *)
(***************************************************************************)
C3_AllFailedGivesBase ==
    /\ ( /\ pc = "done"
         /\ item.kind = "url"
         /\ UrlFailures
              = {"privacy", "headers", "dns", "tracking", "whois", "tls"} )
       => /\ result.trustScore = UrlBase(item.domain).trust
          /\ result.verdict
               = UrlVerdict(UrlBase(item.domain).trust,
                            UrlBase(item.domain).verdict, item.domain)
    /\ ( /\ pc = "done"
         /\ item.kind = "image"
         /\ locals.file_format = "Corrupted/Invalid"
         /\ locals.deepfake_indicators = DeepfakeFailed
         /\ Get(locals.azure_analysis, "azure_analysis", "") # "success"
         /\ Get(Get(locals, "safety_analysis", [content_safety |-> ""]),
                "content_safety", "") # "success" )
       => /\ result.trustScore = ImageBase.trust
          /\ result.verdict = ImageVerdict(ImageBase.trust)
    /\ ( /\ pc = "t_false_claims"
         /\ \A i \in DOMAIN gathered : Failed(gathered[i]) )
       => trust = TextBase.trust

(***************************************************************************)
(* C4.  One failed sub-check adds nothing: with the other outcomes fixed,  *)
(* the returned score is the score of the same request with that sub-check *)
(* left out.                                                               *)
(***************************************************************************)
C4_FailedCheckAddsNothing ==
    /\ ( /\ pc = "done"
         /\ item.kind = "url"
         /\ Cardinality(UrlFailures) = 1 )
       => result.trustScore = Clamp(UrlFold(UrlFailures).trust)
    /\ ( /\ pc = "done"
         /\ item.kind = "image"
         /\ locals.file_format # "Corrupted/Invalid"
         /\ locals.deepfake_indicators = DeepfakeFailed )
       => result.trustScore = Clamp(ImageFold({"deepfake"}).trust)

(***************************************************************************)
(* C5.  A producer whose service is not there (no WHOIS module, no Azure   *)
(* client) is a successful no-op: it changes the score by 0 and leaves a   *)
(* "not configured" note in what the request returns.                      *)
(***************************************************************************)
C5_NotConfiguredIsNoOp ==
    /\ ( /\ pc = "done"
         /\ item.kind = "url"
         /\ locals.registrar = "WHOIS Unavailable" )
       => result.trustScore = Clamp(UrlFold({"whois"}).trust)
    /\ ( /\ pc = "done"
         /\ item.kind = "image"
         /\ locals.azure_analysis
              = [azure_analysis |-> "Azure Computer Vision not configured"] )
       => "Azure Computer Vision not configured" \in ImageNotes

(***************************************************************************)
(* C6.  analyze_image never aborts on bytes that do not decode: no         *)
(* exception leaves it, and the result it returns carries the error note.  *)
(***************************************************************************)
C6_ImageNeverAborts ==
    item.kind = "image"
        => /\ pc # "raised"
           /\ (pc = "done" /\ locals.file_format = "Corrupted/Invalid")
                 => "Error" \in ImageNotes

(***************************************************************************)
(* C7.  analyze_url and analyze_text never raise because the HTTP, DNS,    *)
(* WHOIS, TLS or Azure calls fail: no exception leaves them, and what they *)
(* return is a complete result.                                            *)
(***************************************************************************)
C7_NoExceptionEscapes ==
    item.kind \in {"url", "text"}
        => /\ pc # "raised"
           /\ pc = "done" /\ item.kind = "url"
                 => {"trustScore", "verdict", "domainInfo", "sslInfo",
                     "backlinkProfile"} \subseteq DOMAIN result
           /\ pc = "done" /\ item.kind = "text"
                 => DOMAIN result = {"trustScore", "verdict", "summary",
                                     "sentiment", "sources"}

\* a URL request returned although no external source answered
C7_Witness ==
    /\ pc = "done"
    /\ item.kind = "url"
    /\ UrlFailures = {"privacy", "headers", "dns", "tracking", "whois", "tls"}
    /\ \A c \in {"privacy", "headers", "tracking"} : HasError(ByName(c))
    /\ "trustScore" \in DOMAIN result

(***************************************************************************)
(* C8.  The results of the fan-out are read in the order the sub-checks    *)
(* were handed to the gather, whatever order they finished in: the score   *)
(* and verdict after the aggregation block, and those analyze_url returns, *)
(* are a function of what each named sub-check handed back.                *)
(***************************************************************************)
C8_RegistrationOrder ==
    /\ \A i \in Settled : gathered[i].check = Producers(item.kind)[i]
    /\ pc = "u_whois" => Cur = UrlBlock(UrlBase(item.domain), {})
    /\ pc = "t_false_claims" => Cur = TextBlock(TextBase)
    /\ pc = "done" /\ item.kind = "url"
          => /\ result.trustScore = Clamp(UrlFold({}).trust)
             /\ result.verdict = UrlVerdict(Clamp(UrlFold({}).trust),
                                            UrlFold({}).verdict, item.domain)

\* the last sub-check handed to the gather has finished, with a result that
\* moves the score, while the first is still running
C8_Witness ==
    /\ pc = "gather"
    /\ item.kind = "url"
    /\ IsPending(gathered[1])
    /\ ~IsPending(gathered[4])
    /\ Get(gathered[4], "privacy_score", 100) < 50

(***************************************************************************)
(* C9.  Barrier join: while a sub-check of the fan-out has not settled,    *)
(* the caller is still at the gather and the score and verdict are the     *)
(* base ones.                                                              *)
(***************************************************************************)
C9_BarrierJoin ==
    (\E i \in DOMAIN gathered : IsPending(gathered[i]))
        => /\ pc = "gather"
           /\ Cur = IF item.kind = "url" THEN UrlBase(item.domain) ELSE TextBase

\* a sub-check has settled with a result that will move the score, and
\* another has not settled
C9_Witness ==
    /\ pc = "gather"
    /\ item.kind = "text"
    /\ ~IsPending(ai_analysis)
    /\ Get(ai_analysis, "ai_likelihood", 0) > 70
    /\ IsPending(bias_analysis)

(***************************************************************************)
(* C10.  Failure isolation.  When a sub-check of the fan-out raises, the   *)
(* join still hands every sibling's own result to the aggregation, the     *)
(* score is computed from them, no exception leaves the join, and          *)
(* analyze_url returns every sibling's dict.                               *)
(***************************************************************************)
EvidenceKeys ==
    <<"privacyInfo", "securityHeaders", "dnsSecurity", "trackingInfo">>

C10_FailureIsolation ==
    /\ pc \notin {"idle", "gather"}
          => \A i \in DOMAIN gathered :
                gathered[i] \in Outcomes(Producers(item.kind)[i])
    /\ item.kind \in {"url", "text"} => pc # "raised"
    /\ pc = "u_whois" => Cur = UrlBlock(UrlBase(item.domain), {})
    /\ pc = "t_false_claims" => Cur = TextBlock(TextBase)
    /\ pc = "done" /\ item.kind = "url"
          => \A i \in DOMAIN gathered :
                IsDict(gathered[i])
                   => /\ EvidenceKeys[i] \in DOMAIN result
                      /\ result[EvidenceKeys[i]] = gathered[i]

\* one sub-check raised, and the request returned with the sibling's dict
C10_Witness ==
    /\ pc = "done"
    /\ item.kind = "url"
    /\ IsExc(security_headers)
    /\ IsDict(privacy_info)
    /\ "securityHeaders" \notin DOMAIN result
    /\ result.privacyInfo = privacy_info

\* C10 as the specification words it: the siblings' results are part of
\* what the request returns, for analyze_text as for analyze_url.  The text
\* result has the five fields of make_text_result and nothing else.
C10_SiblingsInEvidence ==
    /\ C10_FailureIsolation
    /\ pc = "done" /\ item.kind = "text"
          => DOMAIN result
               \ {"trustScore", "verdict", "summary", "sentiment", "sources"}
                 # {}

(***************************************************************************)
(* Timeouts and concurrency of the producers.                              *)
(***************************************************************************)

C12_SiblingsProgress ==
    \A i, j \in 1..6 :
       (/\ pc = "gather"
        /\ i \in DOMAIN gathered
        /\ j \in DOMAIN gathered
        /\ i # j
        /\ running.name = Producers(item.kind)[i]
        /\ Producers(item.kind)[j] \notin SettledChecks)
          => ENABLED StartSubcheck(j)

(***************************************************************************)
(* C13.  A request's score and verdict are a function of its item and of   *)
(* what its sub-checks and lookups came to: the order in which the         *)
(* sub-checks finished and whatever ran before the request leave no trace: *)
(* a sub-check's answer is held in its own place whenever it arrives.      *)
(* For analyze_url and analyze_image the returned pair is written over the *)
(* outcomes the finished request still holds.  analyze_text lets go of its *)
(* six analysis dicts after the aggregation block, so its part is stated   *)
(* in two halves: the score at the end of the block over the six dicts,    *)
(* and every later step over the score before it and the text or answer    *)
(* it read.                                                                *)
(***************************************************************************)
C13_TextTail(from, s, l) ==
    CASE from = "t_false_claims" ->
            AdjustFalseClaims(s, Scanned[l.text].false_claim_count)
      [] from = "t_misinformation" ->
            AdjustMisinformation(s, Scanned[l.text].misinformation_count)
      [] from = "t_knowledge" ->
            AdjustKnowledge(s, Scanned[l.text].text_normalized)
      [] from = "t_azure_text" ->
            AdjustAzureSentiment(s, l.azure_text_analysis, l.sentiment)
      [] from = "t_azure_safety" -> AdjustTextSafety(s, l.safety_analysis)
      [] from = "t_final" ->
            [trust |-> Clamp(s.trust), verdict |-> TextVerdict(Clamp(s.trust))]

TextRejected ==
    /\ pc = "done"
    /\ item.kind = "text"
    /\ "safety_analysis" \in DOMAIN locals
    /\ Get(locals.safety_analysis, "content_safety", "") = "success"
    /\ \E k \in DOMAIN locals.safety_analysis.categories :
          locals.safety_analysis.categories[k].rejected

\* C14: when the content-safety check of analyze_text marks a category as
\* rejected, the returned trustScore is 0, whatever was added before and
\* whatever the other categories of the same answer are.
C14_RejectedGivesZero == TextRejected => result.trustScore = 0

\* a statement of the knowledge base (score raised to 90) whose first
\* category is rejected and whose second is of severity 2
C14_Witness ==
    /\ TextRejected
    /\ Scanned[locals.text].text_normalized = geographical_facts[2].fact
    /\ Len(locals.safety_analysis.categories) = 2
    /\ locals.safety_analysis.categories[1].rejected
    /\ locals.safety_analysis.categories[2].severity = 2
    /\ result.trustScore = 0

\* C15: once cross_reference_facts has reported a contradicted fact, the
\* ceiling of 20 it sets bounds the score analyze_text returns.
C15_ContradictedCeiling ==
    (/\ pc = "done"
     /\ item.kind = "text"
     /\ Get(locals, "contradicted_facts", 0) > 0)
       => result.trustScore <= 20

\* C16: a verdict label that a check of the request has set (the running
\* verdict is no longer the one the request started with) is the verdict of
\* the returned result: the table of score bands does not replace it.
C16_ForcedVerdictWins ==
    [][ (/\ pc \in {"u_final", "t_final", "i_final"}
         /\ pc' = "done"
         /\ verdict # (CASE item.kind = "url" -> UrlBase(item.domain).verdict
                         [] item.kind = "text" -> TextBase.verdict
                         [] item.kind = "image" -> ImageBase.verdict))
           => result'.verdict = verdict
      ]_vars

(***************************************************************************)
(* C17.  The labels of each kind, from the worst to the best; a label that *)
(* is none of them ranks below them all.                                   *)
(***************************************************************************)
C17_Rank(kind, v) ==
    LET chain ==
          CASE kind = "text" ->
                 <<"High Risk Content", "Likely Unreliable",
                   "Questionable Content", "Generally Reliable",
                   "Mostly Trustworthy", "Highly Trustworthy">>
            [] kind = "image" ->
                 <<"High Risk - Possible AI/Deepfake", "Likely Manipulated",
                   "Questionable Authenticity", "Likely Authentic",
                   "Highly Authentic">>
            [] kind = "url" ->
                 <<"High Risk", "Moderate Risk", "Low Risk",
                   "Generally Safe", "Trustworthy">>
    IN  IF \E k \in DOMAIN chain : chain[k] = v
        THEN CHOOSE k \in DOMAIN chain : chain[k] = v
        ELSE 0

\* the scores at which the lookup of the finished request's kind (and, for
\* a URL, of its allow-list membership) names a label, and the label named
C17_Table ==
    CASE item.kind = "text" -> [s \in 0..100 |-> TextVerdict(s)]
      [] item.kind = "image" -> [s \in 0..100 |-> ImageVerdict(s)]
      [] item.kind = "url" /\ IsTrustedDomain(item.domain) ->
            [s \in 70..100 |-> UrlVerdict(s, "", item.domain)]
      [] OTHER -> [s \in 0..100 |-> UrlVerdict(s, "", item.domain)]

\* C17: for a fixed kind (and allow-list membership) a higher score never
\* gets a lower-ranked verdict: the verdict a request returns with its
\* score is ranked no higher than the verdict of any higher score and no
\* lower than the verdict of any lower score.
C17_VerdictMonotonic ==
    pc = "done"
       => \A s \in DOMAIN C17_Table :
             /\ s > result.trustScore
                   => C17_Rank(item.kind, C17_Table[s])
                         >= C17_Rank(item.kind, result.verdict)
             /\ s < result.trustScore
                   => C17_Rank(item.kind, C17_Table[s])
                         <= C17_Rank(item.kind, result.verdict)

\* the other result of the pair C17 fails on: an allow-listed URL that came
\* back with a score from 70 to 79
C17_GenerallySafe ==
    /\ pc = "done"
    /\ item.kind = "url"
    /\ IsTrustedDomain(item.domain)
    /\ result.trustScore \in 70..79
    /\ result.verdict = "Generally Safe"

\* a finished text request whose content-safety answer, if one was given,
\* flags no category (none rejected, none of severity 2 or more)
NoHarmFlag ==
    LET r == Get(locals, "safety_analysis", [content_safety |-> "not made"])
    IN  Get(r, "content_safety", "") = "success"
           => \A k \in DOMAIN r.categories : r.categories[k].severity < 2

\* analyze_text has returned for the text 'Delhi is capital of India.'
DelhiReturned ==
    /\ pc = "done"
    /\ item.kind = "text"
    /\ Scanned[locals.text].text_normalized = geographical_facts[2].fact
    /\ Len(locals.text) = Len(geographical_facts[2].fact) + 1

\* C18: for 'Delhi is capital of India.' with no harmful-content flag,
\* analyze_text returns the verdict 'Verified Factual Statement' and a
\* trustScore of 70 or more, whatever the other sub-checks come to.
C18_DelhiVerified ==
    (DelhiReturned /\ NoHarmFlag)
       => /\ result.verdict = "Verified Factual Statement"
          /\ result.trustScore >= 70

\* the score half of C18, which the code does keep
C18_DelhiScore == (DelhiReturned /\ NoHarmFlag) => result.trustScore >= 85

\* C19: for a text that holds two or more of the misinformation phrases,
\* analyze_text returns a trustScore at least one per-phrase penalty (20)
\* below the base of 70 and the verdict 'Potential Misinformation',
\* whatever else the text holds.
C19_RhetoricPenalised ==
    (/\ pc = "done"
     /\ item.kind = "text"
     /\ Scanned[locals.text].misinformation_count >= 2)
       => /\ result.trustScore <= TextBase.trust - 20
          /\ result.verdict = "Potential Misinformation"

(***************************************************************************)
(* C20.  A URL whose host is a raw IPv4 address and whose scheme is not    *)
(* https.                                                                  *)
(***************************************************************************)
RawIpNoHttps ==
    /\ item.kind = "url"
    /\ item.scheme # "https"
    /\ LooksLikeIp(item.domain)
    /\ \A k \in DOMAIN item.domain : item.domain[k] \in Digits \cup {"."}

\* C20: for such a URL analyze_url takes 40 off the score for the IP host
\* and 20 for the missing HTTPS, and whatever the other sub-checks and
\* lookups come to, the verdict it returns is 'High Risk', 'Moderate Risk'
\* or 'Low Risk', never 'Trustworthy'.
C20_RawIpIsRisk ==
    /\ []((pc = "done" /\ RawIpNoHttps)
            => result.verdict \in {"High Risk", "Moderate Risk", "Low Risk"})
    /\ [][ /\ (pc = "u_ip" /\ RawIpNoHttps) => trust' = trust - 40
           /\ (pc = "u_tls" /\ RawIpNoHttps) => trust' = trust - 20
         ]_vars

\* http://192.168.0.1 with every sub-check adding to the score and an old
\* registration: the best such a URL gets
C20_Witness ==
    /\ pc = "done"
    /\ RawIpNoHttps
    /\ Get(security_headers, "security_score", 0) > 50
    /\ Get(dns_security, "security_score", 0) > 40
    /\ Get(privacy_info, "has_privacy_policy", FALSE)
    /\ Get(tracking_info, "privacy_score", 0) > 80
    /\ locals.registrar = "Unknown"
    /\ locals.age_days >= 365
    /\ result.verdict = "Moderate Risk"

(***************************************************************************)
(* C21.  The file-size check of analyze_image.                             *)
(***************************************************************************)
\* what the file-size check is documented to add for content of this length
C21_SizeDelta(file_size) ==
    CASE file_size < 1000 -> -30
      [] file_size > 20971520 -> 10
      [] OTHER -> 0

\* C21: the file-size step of analyze_image moves the score by exactly -30
\* when the content is shorter than 1000 bytes, by exactly +10 when it is
\* larger than 20 MB (20971520 bytes), and by 0 otherwise, at every score
\* and verdict the compression check left behind; at most one of the two
\* notes is added.
C21_SizeCheckExact ==
    [][pc = "i_size"
         => /\ trust' = trust + C21_SizeDelta(locals.file_size)
            /\ verdict' = verdict
            /\ Len(locals'.artifacts) - Len(locals.artifacts)
                 = (IF C21_SizeDelta(locals.file_size) = 0 THEN 0 ELSE 1)
      ]_vars

\* a 900-byte PNG after the size check: 75 + 5 - 30
C21_Witness ==
    /\ pc = "i_resolution"
    /\ item.kind = "image"
    /\ locals.file_size < 1000
    /\ locals.file_format = "PNG"
    /\ trust = ImageBase.trust + 5 - 30

(***************************************************************************)
(* C22.  Allow-listed domains and the registration lookup.                 *)
(***************************************************************************)
\* urlparse(url).hostname for the netlocs of the model: the netloc without
\* its port
HostOf(netloc) ==
    IF \E k \in DOMAIN netloc : netloc[k] = ":"
    THEN SubSeq(netloc, 1,
                (CHOOSE k \in DOMAIN netloc :
                    /\ netloc[k] = ":"
                    /\ \A j \in 1..(k - 1) : netloc[j] # ":") - 1)
    ELSE netloc

\* the host is an allow-listed domain or a subdomain of one
AllowListed(netloc) ==
    \E k \in DOMAIN trusted_domains :
        \/ HostOf(netloc) = trusted_domains[k]
        \/ EndsWith(HostOf(netloc), <<".">> \o trusted_domains[k])

\* C22: a URL of an allow-listed domain starts analyze_url at 85, and the
\* registration step leaves its score and verdict alone whatever the lookup
\* returns (any age, no date, no WHOIS module, an exception).
C22_AllowListedExempt ==
    /\ []((pc = "gather" /\ item.kind = "url" /\ AllowListed(item.domain))
            => trust = 85)
    /\ [][(pc = "u_whois" /\ AllowListed(item.domain) /\ pc' = "u_tld")
            => (trust' = trust /\ verdict' = verdict)
         ]_vars

\* the same for the URLs whose netloc is the bare host name
C22_ExemptWithoutPort ==
    /\ []((pc = "gather" /\ item.kind = "url" /\ AllowListed(item.domain)
           /\ HostOf(item.domain) = item.domain)
            => trust = 85)
    /\ [][(pc = "u_whois" /\ AllowListed(item.domain) /\ pc' = "u_tld"
           /\ HostOf(item.domain) = item.domain)
            => (trust' = trust /\ verdict' = verdict)
         ]_vars

(***************************************************************************)
(* C23.  The result assemblers.                                            *)
(***************************************************************************)
\* the optional keys of a URL result, in the order of the sub-checks
C23_BundleKeys ==
    <<"privacyInfo", "securityHeaders", "dnsSecurity", "trackingInfo">>

\* C23: the result every analyzer returns carries the score and the verdict
\* the analyzer handed to the assembler, unchanged; a URL result has the
\* key privacyInfo, securityHeaders, dnsSecurity or trackingInfo exactly
\* when the sub-check of that key produced a non-empty dict, and the key
\* then holds that dict.
C23_AssemblerPassThrough ==
    pc = "done"
      => /\ result.trustScore = trust
         /\ result.verdict = verdict
         /\ item.kind = "url"
              => \A i \in DOMAIN C23_BundleKeys :
                    /\ (C23_BundleKeys[i] \in DOMAIN result)
                          <=> (IsDict(gathered[i]) /\ DOMAIN gathered[i] # {})
                    /\ (C23_BundleKeys[i] \in DOMAIN result)
                          => result[C23_BundleKeys[i]] = gathered[i]
         /\ item.kind # "url"
              => \A i \in DOMAIN C23_BundleKeys :
                    ~(C23_BundleKeys[i] \in DOMAIN result)

\* a URL result with the bundle of a sub-check that reported an error, and
\* without the bundle of one that raised
C23_Witness ==
    /\ pc = "done"
    /\ item.kind = "url"
    /\ IsDict(privacy_info) /\ HasError(privacy_info)
    /\ "privacyInfo" \in DOMAIN result
    /\ IsExc(dns_security)
    /\ ~("dnsSecurity" \in DOMAIN result)
    /\ result.trustScore = trust

(***************************************************************************)
(* C25.  analyze_text_with_search and its fallback.                        *)
(***************************************************************************)
\* C25: analyze_text_with_search never raises; when
\* analyze_text_credibility has failed with an exception, the caller gets
\* the fallback result: trustScore 50, verdict 'Analysis Incomplete - Web
\* search unavailable', sentiment 'Neutral', no sources, and the text of
\* the exception.
C25_SearchNeverRaises ==
    \A c \in Callers :
        calls[c].op = "analyze"
          => /\ calls[c].pc # "raised"
             /\ calls[c].exc # "none"
                  => /\ calls[c].pc = "returned"
                     /\ calls[c].result.trustScore = 50
                     /\ calls[c].result.verdict
                          = "Analysis Incomplete - Web search unavailable"
                     /\ calls[c].result.sentiment = "Neutral"
                     /\ calls[c].result.sources = << >>
                     /\ calls[c].result.error = calls[c].exc

\* one caller has the fallback in hand while another is in the middle of
\* an analysis that goes well
C25_Witness ==
    \E c, d \in Callers :
        /\ calls[c].op = "analyze"
        /\ calls[c].exc = "Exception"
        /\ calls[c].pc = "returned"
        /\ calls[d].op = "analyze"
        /\ calls[d].pc = "get"

(***************************************************************************)
(* C30.  The HTTP session of RealTimeFactChecker.                          *)
(***************************************************************************)
\* the caller's coroutine has just been handed a session by get_session
C30_Handed(c) ==
    /\ calls'[c] # calls[c]
    /\ \/ calls'[c].op = "get_session"
       \/ calls'[c].pc = "get"

\* C30: whatever the callers do with get_session, search_web and close, and
\* however their coroutines interleave, at most one session that has not
\* been closed exists, and every session get_session hands out is open:
\* after a close the next get_session gives a new session, never the closed
\* one.
C30_SessionAlwaysUsable ==
    /\ [](Cardinality({s \in DOMAIN http : http[s] = "open"}) <= 1)
    /\ [][\A c \in Callers :
            C30_Handed(c) => http'[calls'[c].session] = "open"
         ]_vars

\* the first half alone: no second session is created while one is open
C30_OneOpenSession ==
    Cardinality({s \in DOMAIN http : http[s] = "open"}) <= 1

\* a caller holds the session another caller has closed
C30_ClosedInHand ==
    \E c \in Callers :
        /\ calls[c].op = "get_session"
        /\ calls[c].pc = "returned"
        /\ http[calls[c].session] = "closed"

C26_HighRisk ==
    /\ item.kind = "image"
    /\ "deepfake_indicators" \in DOMAIN locals
    /\ locals.deepfake_indicators.high_risk

\* C26: once the deepfake analysis has reported high_risk the score is at
\* most 25 at every later step of analyze_image, whatever the two Azure
\* checks answer, and the request returns a trustScore of at most 25 with
\* the verdict 'High Risk - Possible AI/Deepfake'.
C26_HighRiskStaysCapped ==
    C26_HighRisk
      => /\ trust <= 25
         /\ pc = "done"
              => /\ result.trustScore <= 25
                 /\ result.verdict = "High Risk - Possible AI/Deepfake"

\* an image that stood at 60 or more, found high-risk on its facial
\* features alone (35 points) and passed by both Azure checks: returned at
\* the cap
C26_Witness ==
    /\ pc = "done"
    /\ C26_HighRisk
    /\ locals.deepfake_indicators.suspicion_score = 35
    /\ Get(locals.azure_analysis, "azure_analysis", "") = "success"
    /\ ~IsAdult(locals.azure_analysis)
    /\ Get(locals.azure_analysis, "faces", 0) = 0
    /\ "safety_analysis" \in DOMAIN locals
    /\ Get(locals.safety_analysis, "content_safety", "") = "success"
    /\ Get(locals.safety_analysis, "categories", << >>) = << >>
    /\ result.trustScore = 25

(***************************************************************************)
(* C27.  The knowledge-base floor of analyze_text.                         *)
(***************************************************************************)
\* the normalized text contains a complete statement of the fact table
C27_HoldsStatement ==
    [text \in Texts |->
        \E k \in DOMAIN geographical_facts :
            Contains(text_normalized(text), geographical_facts[k].fact)]

\* C27: the knowledge-base step of analyze_text raises the score to the
\* fact's value minus 5 and sets 'Verified Factual Statement' only for a
\* text whose normalized form contains a complete statement of the fact
\* table; for any other text, the empty text and a fragment of a statement
\* included, the step changes neither the score nor the verdict.
C27_FloorOnlyForStatement ==
    [][(pc = "t_knowledge" /\ ~C27_HoldsStatement[locals.text])
          => (trust' = trust /\ verdict' = verdict)
      ]_vars

\* for a text that contains a complete statement the step gives the floor
C27_StatementGetsFloor ==
    [][(pc = "t_knowledge" /\ C27_HoldsStatement[locals.text])
          => (trust' >= 90 /\ verdict' = "Verified Factual Statement")
      ]_vars

(***************************************************************************)
(* C28.  Hosts that only end with an allow-listed name.                    *)
(***************************************************************************)
\* C28: a host that is neither an allow-listed domain nor a subdomain of
\* one is scored as an unknown domain by analyze_url: it starts from 75,
\* the registration step takes its penalties, and the backlink step takes
\* 10 instead of adding 5.
C28_OnlyAllowListedExempt ==
    /\ []((pc = "gather" /\ item.kind = "url" /\ ~AllowListed(item.domain))
            => trust = 75)
    /\ [][ /\ (pc = "u_whois" /\ pc' = "u_tld" /\ ~AllowListed(item.domain)
               /\ locals'.registrar # "Unknown")
                 => trust' < trust
           /\ (pc = "u_backlinks" /\ ~AllowListed(item.domain))
                 => trust' = trust - 10
         ]_vars

(***************************************************************************)
(* C29.  The URL-shortener penalty.                                        *)
(***************************************************************************)
\* the host is one of the listed shortener services or a subdomain of one
C29_ShortenerHost(netloc) ==
    \E k \in DOMAIN shorteners :
        \/ HostOf(netloc) = shorteners[k]
        \/ EndsWith(HostOf(netloc), <<".">> \o shorteners[k])

\* C29: the shortener step of analyze_url takes 20 off the score and sets
\* 'URL Shortener' only for a host that is one of the listed services; for
\* every other host, the allow-listed domains included, it changes neither
\* the score nor the verdict.
C29_OnlyShortenersPenalised ==
    [][(pc = "u_shortener" /\ ~C29_ShortenerHost(item.domain))
          => (trust' = trust /\ verdict' = verdict)
      ]_vars

\* a listed shortener is penalised
C29_ShortenerPenalised ==
    [][(pc = "u_shortener" /\ C29_ShortenerHost(item.domain))
          => (trust' = trust - 20 /\ verdict' = "URL Shortener")
      ]_vars
====
